---------------------------- MODULE Spec2Model ----------------------------
(***************************************************************************)
(* Bitcoin address codec of the consensus contracts: Solver,               *)
(* ConvertBits, ExtractDestination, DecodeDestination and IsValid, with    *)
(* the Base58Check, Bech32/Bech32m and script-opcode helpers they call.    *)
(*                                                                         *)
(* Also the debug action cleartable of the keymng and utxo_manage          *)
(* contracts.                                                              *)
(*                                                                         *)
(* Bytes and 5-bit symbols are naturals, byte strings and texts are        *)
(* sequences (a text is the sequence of its ASCII codes).  The buffers a   *)
(* caller passes by reference (script, addressRet, vSolutionsRet,          *)
(* error_str) are the variables of the state machine; one action is one    *)
(* call of a public function.                                              *)
(***************************************************************************)
EXTENDS Integers, Sequences, FiniteSets, TLC

VARIABLES
    op,            \* the function called last ("init" before the first call)
    params,        \* the Params the calls are given
    scriptPubKey,  \* the script given to Solver / ExtractDestination
    whichType,     \* TxoutType returned by the last Solver run
    vSolutions,    \* the caller's vSolutionsRet vector
    addressRet,    \* the caller's addressRet vector
    emitted,       \* number of addresses the last ExtractDestination appended
    str,           \* the text given to DecodeDestination / IsValid
    entry,         \* contents of the caller's script vector on entry
    script,        \* the caller's script vector
    error_str,     \* the caller's error_str
    ret,           \* what the last ExtractDestination or DecodeDestination returned
    valid,         \* what IsValid returned for str ("none": not called on it)
    vals,          \* the byte sequence given to ConvertBits<8, 5, true>
    to5,           \* [ok, out] of ConvertBits<8, 5, true> ("none" before the call)
    to8,           \* [ok, out] of ConvertBits<5, 8, false> on to5.out
    self,          \* get_self() of the contract whose cleartable is called
    tables,        \* the rows of the contract's tables, in primary-key order
    before,        \* tables as they were when cleartable was called
    call,          \* the arguments and the authorizer of the cleartable call
    aborted        \* the message the call was aborted with, "" if it was not

convertVars == << vals, to5, to8 >>

debugVars == << self, tables, before, call, aborted >>

vars == << op, params, scriptPubKey, whichType, vSolutions, addressRet,
           emitted, str, entry, script, error_str, ret, valid, convertVars,
           debugVars >>

-----------------------------------------------------------------------------
(* Bit arithmetic on naturals below 2^31.                                  *)

Shl(a, n) == a * (2 ^ n)
Shr(a, n) == a \div (2 ^ n)
\* a & ((1 << n) - 1)
LowBits(a, n) == a % (2 ^ n)

RECURSIVE BitOr(_, _)
BitOr(a, b) ==
    IF a = 0 THEN b
    ELSE IF b = 0 THEN a
    ELSE (IF (a % 2 = 1) \/ (b % 2 = 1) THEN 1 ELSE 0) + 2 * BitOr(a \div 2, b \div 2)

RECURSIVE BitXor(_, _)
BitXor(a, b) ==
    IF a = 0 THEN b
    ELSE IF b = 0 THEN a
    ELSE ((a + b) % 2) + 2 * BitXor(a \div 2, b \div 2)

\* s[from..] (empty when from is past the end)
Drop(s, n) == SubSeq(s, n + 1, Len(s))
Take(s, n) == SubSeq(s, 1, n)

\* first index of element e in sequence s, 0 when absent
IndexOf(s, e) ==
    IF \E i \in 1..Len(s) : s[i] = e
    THEN CHOOSE i \in 1..Len(s) : s[i] = e /\ \A j \in 1..(i - 1) : s[j] # e
    ELSE 0

-----------------------------------------------------------------------------
(* ConvertBits<frombits, tobits, pad>: the accumulator loop.               *)

\* the inner while loop: emit symbols while bits >= tobits
RECURSIVE ConvertDrain(_, _, _, _)
ConvertDrain(tobits, acc, bits, out) ==
    IF bits >= tobits
    THEN ConvertDrain(tobits, acc, bits - tobits,
                      Append(out, LowBits(Shr(acc, bits - tobits), tobits)))
    ELSE [acc |-> acc, bits |-> bits, out |-> out]

\* a faulty iteration: the accumulator is masked to tobits bits only, which
\* drops the bits carried over to the next symbol
ConvertStepNarrowMask(frombits, tobits, st, v) ==
    ConvertDrain(tobits, LowBits(BitOr(Shl(st.acc, frombits), v), tobits),
                 st.bits + frombits, st.out)

\* one iteration of the outer loop, for input symbol v: the accumulator is
\* masked with max_acc = (1 << (frombits + tobits - 1)) - 1
ConvertStep(frombits, tobits, st, v) ==
    ConvertDrain(tobits,
                 LowBits(BitOr(Shl(st.acc, frombits), v), frombits + tobits - 1),
                 st.bits + frombits, st.out)

\* the outer loop over input[lo..hi], started in state st
RECURSIVE ConvertLoop(_, _, _, _, _, _)
ConvertLoop(frombits, tobits, st, input, lo, hi) ==
    IF st.bits < 0 \/ lo > hi THEN st   \* (st is evaluated before the range is split)
    ELSE IF lo = hi THEN ConvertStep(frombits, tobits, st, input[lo])
    ELSE ConvertLoop(frombits, tobits,
                     ConvertLoop(frombits, tobits, st, input, lo, (lo + hi) \div 2),
                     input, (lo + hi) \div 2 + 1, hi)

\* a faulty end of the conversion that never emits the padded symbol
ConvertBitsUnpadded(frombits, tobits, pad, input) ==
    LET Finish(st, res) ==
            IF pad THEN [ok |-> TRUE, out |-> st.out]
            ELSE IF st.bits >= frombits \/ res # 0
                 THEN [ok |-> FALSE, out |-> st.out]
                 ELSE [ok |-> TRUE, out |-> st.out]
        Pad(st) == Finish(st, LowBits(Shl(st.acc, tobits - st.bits), tobits))
    IN Pad(ConvertLoop(frombits, tobits, [acc |-> 0, bits |-> 0, out |-> << >>],
                       input, 1, Len(input)))

\* a faulty end of the conversion that looks at the value of the bits left
\* over and not at their number
ConvertBitsResidualOnly(frombits, tobits, pad, input) ==
    LET Finish(st, res) ==
            IF pad
            THEN [ok  |-> TRUE,
                  out |-> IF st.bits # 0 THEN Append(st.out, res) ELSE st.out]
            ELSE [ok |-> res = 0, out |-> st.out]
        Pad(st) == Finish(st, LowBits(Shl(st.acc, tobits - st.bits), tobits))
    IN Pad(ConvertLoop(frombits, tobits, [acc |-> 0, bits |-> 0, out |-> << >>],
                       input, 1, Len(input)))

\* [ok |-> the return value, out |-> what outfn was called with, in order]
ConvertBits(frombits, tobits, pad, input) ==
    LET \* what follows the loop, st being the state it ends in and res
        \* (acc << (tobits - bits)) & maxv
        Finish(st, res) ==
            IF pad
            THEN [ok  |-> TRUE,
                  out |-> IF st.bits # 0 THEN Append(st.out, res) ELSE st.out]
            ELSE IF st.bits >= frombits \/ res # 0
                 THEN [ok |-> FALSE, out |-> st.out]
                 ELSE [ok |-> TRUE, out |-> st.out]
        Pad(st) == Finish(st, LowBits(Shl(st.acc, tobits - st.bits), tobits))
    IN Pad(ConvertLoop(frombits, tobits, [acc |-> 0, bits |-> 0, out |-> << >>],
                       input, 1, Len(input)))

-----------------------------------------------------------------------------
(* Texts.                                                                  *)

LowerChar(c) == IF c >= 65 /\ c <= 90 THEN c + 32 ELSE c
UpperChar(c) == IF c >= 97 /\ c <= 122 THEN c - 32 ELSE c

\* bech32::ToLower
ToLower(s) == [i \in 1..Len(s) |-> LowerChar(s[i])]

\* std::string::substr(0, n)
Substr0(s, n) == IF n >= Len(s) THEN s ELSE SubSeq(s, 1, n)

-----------------------------------------------------------------------------
(* Bech32 / Bech32m (BIP-173, BIP-350).                                    *)

\* "qpzry9x8gf2tvdw0s3jn54khce6mua7l"
Bech32Charset ==
    << 113, 112, 122, 114, 121, 57, 120, 56, 103, 102, 50, 116, 118, 100, 119, 48,
       115, 51, 106, 110, 53, 52, 107, 104, 99, 101, 54, 109, 117, 97, 55, 108 >>

\* 0x3b6a57b2, 0x26508e6d, 0x1ea119fa, 0x3d4233dd, 0x2a1462b3
Bech32Generators == << 996825010, 642813549, 513874426, 1027748829, 705979059 >>

\* the final constant of each encoding: 1 and 0x2bc830a3
EncodingConstant(enc) == IF enc = "BECH32" THEN 1 ELSE 734539939

\* c ^= generator i when bit i of c0 is set
PolyFold(c, c0, i) ==
    IF Shr(c0, i) % 2 = 1 THEN BitXor(c, Bech32Generators[i + 1]) ELSE c

\* one step of the checksum polynomial, absorbing symbol v
PolyStep(c, v) ==
    PolyFold(PolyFold(PolyFold(PolyFold(PolyFold(
        BitXor(Shl(LowBits(c, 25), 5), v),
        Shr(c, 25), 0), Shr(c, 25), 1), Shr(c, 25), 2), Shr(c, 25), 3), Shr(c, 25), 4)

RECURSIVE PolyLoop(_, _, _, _)
PolyLoop(c, values, lo, hi) ==
    IF c < 0 \/ lo > hi THEN c   \* (c is evaluated before the range is split)
    ELSE IF lo = hi THEN PolyStep(c, values[lo])
    ELSE PolyLoop(PolyLoop(c, values, lo, (lo + hi) \div 2),
                  values, (lo + hi) \div 2 + 1, hi)

PolyMod(values) == PolyLoop(1, values, 1, Len(values))

\* hrp_hi ++ [0] ++ hrp_lo
ExpandHRP(hrp) ==
    [i \in 1..Len(hrp) |-> Shr(hrp[i], 5)] \o << 0 >> \o
    [i \in 1..Len(hrp) |-> LowBits(hrp[i], 5)]

CreateChecksum(enc, hrp, values) ==
    LET Symbols(poly) == [i \in 1..6 |-> LowBits(Shr(poly, 5 * (6 - i)), 5)]
    IN Symbols(BitXor(PolyMod(ExpandHRP(hrp) \o values \o << 0, 0, 0, 0, 0, 0 >>),
                      EncodingConstant(enc)))

\* bech32::Encode
Bech32Encode(enc, hrp, values) ==
    LET Chars(combined) == [i \in 1..Len(combined) |-> Bech32Charset[combined[i] + 1]]
    IN hrp \o << 49 >> \o Chars(values \o CreateChecksum(enc, hrp, values))

\* position of the last '1' of text s, 0 when there is none
LastSeparator(s) ==
    IF \E i \in 1..Len(s) : s[i] = 49
    THEN CHOOSE i \in 1..Len(s) : s[i] = 49 /\ \A j \in (i + 1)..Len(s) : s[j] # 49
    ELSE 0

Bech32Invalid == [encoding |-> "INVALID", hrp |-> << >>, data |-> << >>]

\* bech32::Decode
Bech32Decode(s) ==
    LET \* the checksum decides the encoding
        Result(hrp, data, check) ==
            IF check = EncodingConstant("BECH32")
            THEN [encoding |-> "BECH32", hrp |-> hrp, data |-> data]
            ELSE IF check = EncodingConstant("BECH32M")
            THEN [encoding |-> "BECH32M", hrp |-> hrp, data |-> data]
            ELSE Bech32Invalid
        Verify(hrp, values) ==
            Result(hrp, SubSeq(values, 1, Len(values) - 6),
                   PolyMod(ExpandHRP(hrp) \o values))
        \* every character after the separator must be of the charset
        Parts(hrp, chars) ==
            IF \E i \in 1..Len(chars) : IndexOf(Bech32Charset, chars[i]) = 0
            THEN Bech32Invalid
            ELSE Verify(hrp, [i \in 1..Len(chars) |->
                                 IndexOf(Bech32Charset, chars[i]) - 1])
        Split(low, pos) ==
            IF Len(low) > 90 \/ pos = 0 \/ pos = 1 \/ pos + 6 > Len(low)
            THEN Bech32Invalid
            ELSE Parts(SubSeq(low, 1, pos - 1), SubSeq(low, pos + 1, Len(low)))
    IN IF \/ \E i \in 1..Len(s) : s[i] < 33 \/ s[i] > 126
          \/ /\ \E i \in 1..Len(s) : s[i] >= 97 /\ s[i] <= 122
             /\ \E i \in 1..Len(s) : s[i] >= 65 /\ s[i] <= 90
       THEN Bech32Invalid
       ELSE Split(ToLower(s), LastSeparator(s))

-----------------------------------------------------------------------------
(* Base58 and Base58Check.                                                 *)

\* "123456789ABCDEFGHJKLMNPQRSTUVWXYZabcdefghijkmnopqrstuvwxyz"
Base58Alphabet ==
    << 49, 50, 51, 52, 53, 54, 55, 56, 57, 65, 66, 67, 68, 69, 70, 71,
       72, 74, 75, 76, 77, 78, 80, 81, 82, 83, 84, 85, 86, 87, 88, 89,
       90, 97, 98, 99, 100, 101, 102, 103, 104, 105, 106, 107, 109, 110, 111, 112,
       113, 114, 115, 116, 117, 118, 119, 120, 121, 122 >>

\* number of leading elements of s equal to e
LeadingCount(s, e) ==
    IF \A i \in 1..Len(s) : s[i] = e THEN Len(s)
    ELSE (CHOOSE i \in 1..Len(s) : s[i] # e /\ \A j \in 1..(i - 1) : s[j] = e) - 1

\* digits[lo..hi] (little-endian, base `to`) times `from`, plus the carry:
\* the digits so far are appended to st.out, the carry is handed on
RECURSIVE RadixCarry(_, _, _, _, _, _)
RadixCarry(from, to, st, digits, lo, hi) ==
    IF st.carry < 0 \/ lo > hi THEN st   \* (st is evaluated before the range is split)
    ELSE IF lo = hi
    THEN [carry |-> (st.carry + from * digits[lo]) \div to,
          out   |-> Append(st.out, (st.carry + from * digits[lo]) % to)]
    ELSE RadixCarry(from, to,
                    RadixCarry(from, to, st, digits, lo, (lo + hi) \div 2),
                    digits, (lo + hi) \div 2 + 1, hi)

\* the carry left after the last digit becomes new leading digits
RECURSIVE RadixFlush(_, _, _)
RadixFlush(to, carry, out) ==
    IF carry = 0 THEN out ELSE RadixFlush(to, carry \div to, Append(out, carry % to))

\* absorb one more input digit v (base `from`) into the number `digits`
RadixStep(from, to, digits, v) ==
    LET Flush(st) == RadixFlush(to, st.carry, st.out)
    IN Flush(RadixCarry(from, to, [carry |-> v, out |-> << >>], digits, 1, Len(digits)))

\* big-endian input[lo..hi] in base `from`, absorbed into little-endian `digits`
RECURSIVE RadixLoop(_, _, _, _, _, _)
RadixLoop(from, to, digits, input, lo, hi) ==
    IF Len(digits) < 0 \/ lo > hi THEN digits   \* (digits is evaluated first)
    ELSE IF lo = hi THEN RadixStep(from, to, digits, input[lo])
    ELSE RadixLoop(from, to,
                   RadixLoop(from, to, digits, input, lo, (lo + hi) \div 2),
                   input, (lo + hi) \div 2 + 1, hi)

Reverse(s) == [i \in 1..Len(s) |-> s[Len(s) + 1 - i]]

\* big-endian digits in base `to` of the big-endian number `input` in base
\* `from`, without leading zero digits
RadixConvert(from, to, input) ==
    Reverse(RadixLoop(from, to, << >>, input, 1, Len(input)))

\* EncodeBase58: leading zero bytes become leading '1's
EncodeBase58(bytes) ==
    LET Chars(digits) == [i \in 1..Len(digits) |-> Base58Alphabet[digits[i] + 1]]
        Encode(zeroes) ==
            [i \in 1..zeroes |-> 49] \o Chars(RadixConvert(256, 58, Drop(bytes, zeroes)))
    IN Encode(LeadingCount(bytes, 0))

\* DecodeBase58(text, vch, max_ret_len): [ok, data]
DecodeBase58(text, max_ret_len) ==
    LET Result(zeroes, bytes) ==
            IF zeroes + Len(bytes) > max_ret_len
            THEN [ok |-> FALSE, data |-> << >>]
            ELSE [ok |-> TRUE, data |-> [i \in 1..zeroes |-> 0] \o bytes]
        Decode(zeroes) ==
            Result(zeroes,
                   RadixConvert(58, 256,
                                [i \in 1..(Len(text) - zeroes) |->
                                    IndexOf(Base58Alphabet, text[zeroes + i]) - 1]))
    IN IF \E i \in 1..Len(text) : IndexOf(Base58Alphabet, text[i]) = 0
       THEN [ok |-> FALSE, data |-> << >>]
       ELSE Decode(LeadingCount(text, 49))

\* Stand-in for the first four bytes of SHA256(SHA256(payload)): SHA-256 is
\* outside the codec, so the checksum is a fixed four-byte digest of the
\* payload (two running sums modulo the prime 65521).
RECURSIVE DigestLoop(_, _, _, _)
DigestLoop(st, payload, lo, hi) ==
    IF st.a < 0 \/ lo > hi THEN st   \* (st is evaluated before the range is split)
    ELSE IF lo = hi
    THEN [a |-> (st.a * 251 + payload[lo] + 1) % 65521,
          b |-> (st.b * 3 + ((st.a * 251 + payload[lo] + 1) % 65521)) % 65521]
    ELSE DigestLoop(DigestLoop(st, payload, lo, (lo + hi) \div 2),
                    payload, (lo + hi) \div 2 + 1, hi)

Hash256Prefix(payload) ==
    LET Bytes(st) == << st.a \div 256, st.a % 256, st.b \div 256, st.b % 256 >>
    IN Bytes(DigestLoop([a |-> 1, b |-> 7], payload, 1, Len(payload)))

\* EncodeBase58Check
EncodeBase58Check(payload) == EncodeBase58(payload \o Hash256Prefix(payload))

\* DecodeBase58Check(text, vch, max_ret_len): [ok, data]
DecodeBase58Check(text, max_ret_len) ==
    LET Verify(payload, checksum) ==
            IF Hash256Prefix(payload) # checksum
            THEN [ok |-> FALSE, data |-> << >>]
            ELSE [ok |-> TRUE, data |-> payload]
        Check(dec) ==
            IF ~dec.ok \/ Len(dec.data) < 4
            THEN [ok |-> FALSE, data |-> << >>]
            ELSE Verify(Take(dec.data, Len(dec.data) - 4),
                        Drop(dec.data, Len(dec.data) - 4))
    IN Check(DecodeBase58(text, max_ret_len + 4))

-----------------------------------------------------------------------------
(* Script opcodes and the opcode reader.                                   *)

OP_0 == 0
OP_PUSHDATA1 == 76
OP_PUSHDATA2 == 77
OP_PUSHDATA4 == 78
OP_RESERVED == 80
OP_1 == 81
OP_16 == 96
OP_RETURN == 106
OP_DUP == 118
OP_EQUAL == 135
OP_EQUALVERIFY == 136
OP_HASH160 == 169
OP_CHECKSIG == 172
OP_CHECKMULTISIG == 174
OP_INVALIDOPCODE == 255

\* decode_op_n: OP_0 gives 0, OP_1..OP_16 give 1..16
DecodeOP_N(opcode) == IF opcode = OP_0 THEN 0 ELSE opcode - (OP_1 - 1)

\* encode_op_n, for n in 1..16 (0 gives OP_0)
EncodeOP_N(n) == IF n = 0 THEN OP_0 ELSE OP_1 + n - 1

\* encode_push_bytes_n, for n in 1..75: the raw push-N opcode
EncodePushBytes_N(n) == n

\* GetScriptOp(pc, end, opcodeRet, pvchRet) on script v, pc the index of the
\* next byte (1-based): [ok, pc, opcode, data]
GetScriptOp(v, pc) ==
    LET end    == Len(v) + 1
        fail   == [ok |-> FALSE, pc |-> pc, opcode |-> OP_INVALIDOPCODE, data |-> << >>]
        opcode == v[pc]
        lenlen == CASE opcode < OP_PUSHDATA1 -> 0
                    [] opcode = OP_PUSHDATA1 -> 1
                    [] opcode = OP_PUSHDATA2 -> 2
                    [] OTHER                 -> 4
        p1     == pc + 1 + lenlen
        \* a PUSHDATA4 length of 2^31 or more exceeds every script
        huge   == lenlen = 4 /\ v[pc + 4] >= 128
        nSize  == CASE lenlen = 0 -> opcode
                    [] lenlen = 1 -> v[pc + 1]
                    [] lenlen = 2 -> v[pc + 1] + 256 * v[pc + 2]
                    [] OTHER      -> v[pc + 1] + 256 * v[pc + 2] + 65536 * v[pc + 3]
                                     + 16777216 * v[pc + 4]
    IN IF pc >= end THEN fail
       ELSE IF opcode > OP_PUSHDATA4
       THEN [ok |-> TRUE, pc |-> pc + 1, opcode |-> opcode, data |-> << >>]
       ELSE IF end - (pc + 1) < lenlen THEN fail
       ELSE IF huge THEN fail
       ELSE IF end - p1 < nSize THEN fail
       ELSE [ok |-> TRUE, pc |-> p1 + nSize, opcode |-> opcode,
             data |-> SubSeq(v, p1, p1 + nSize - 1)]

-----------------------------------------------------------------------------
(* Public keys and the script templates.                                   *)

BECH32_WITNESS_PROG_MAX_LEN == 40
WITNESS_V0_SCRIPTHASH_SIZE == 32
WITNESS_V0_KEYHASH_SIZE == 20
WITNESS_V1_TAPROOT_SIZE == 32
SIZE == 65
COMPRESSED_SIZE == 33

\* CPubKey::GetLen
GetLen(chHeader) ==
    IF chHeader = 2 \/ chHeader = 3 THEN COMPRESSED_SIZE
    ELSE IF chHeader = 4 \/ chHeader = 6 \/ chHeader = 7 THEN SIZE
    ELSE 0

\* CPubKey::ValidSize
ValidSize(vch) == Len(vch) > 0 /\ GetLen(vch[1]) = Len(vch)

\* MatchPayToPubkey: [ok, pubkey]
MatchPayToPubkey(v) ==
    IF Len(v) = SIZE + 2 /\ v[1] = SIZE /\ v[Len(v)] = OP_CHECKSIG
    THEN [ok |-> ValidSize(SubSeq(v, 2, SIZE + 1)), pubkey |-> SubSeq(v, 2, SIZE + 1)]
    ELSE IF Len(v) = COMPRESSED_SIZE + 2 /\ v[1] = COMPRESSED_SIZE
            /\ v[Len(v)] = OP_CHECKSIG
    THEN [ok     |-> ValidSize(SubSeq(v, 2, COMPRESSED_SIZE + 1)),
          pubkey |-> SubSeq(v, 2, COMPRESSED_SIZE + 1)]
    ELSE [ok |-> FALSE, pubkey |-> << >>]

\* MatchPayToPubkeyHash: [ok, pubkeyhash]
MatchPayToPubkeyHash(v) ==
    IF Len(v) = 25 /\ v[1] = OP_DUP /\ v[2] = OP_HASH160 /\ v[3] = 20
       /\ v[24] = OP_EQUALVERIFY /\ v[25] = OP_CHECKSIG
    THEN [ok |-> TRUE, pubkeyhash |-> SubSeq(v, 4, 23)]
    ELSE [ok |-> FALSE, pubkeyhash |-> << >>]

IsSmallInteger(opcode) == opcode >= OP_1 /\ opcode <= OP_16

\* the while loop of MatchMultisig: reads opcodes from pc on, collecting the
\* pushes of valid public-key size; [pc, opcode, pubkeys] when it stops
RECURSIVE MultisigKeys(_, _, _)
MultisigKeys(v, pc, pubkeys) ==
    LET Read(r) ==
            IF r.ok /\ ValidSize(r.data)
            THEN MultisigKeys(v, r.pc, Append(pubkeys, r.data))
            ELSE [pc |-> r.pc, opcode |-> r.opcode, pubkeys |-> pubkeys]
    IN Read(GetScriptOp(v, pc))

\* MatchMultisig: [ok, required, pubkeys]
MatchMultisig(v) ==
    LET no == [ok |-> FALSE, required |-> 0, pubkeys |-> << >>]
        Keys(required, loop) ==
            IF ~IsSmallInteger(loop.opcode) THEN no
            ELSE IF Len(loop.pubkeys) # DecodeOP_N(loop.opcode)
                    \/ DecodeOP_N(loop.opcode) < required
            THEN no
            ELSE [ok       |-> loop.pc + 1 = Len(v) + 1,
                  required |-> required,
                  pubkeys  |-> loop.pubkeys]
        First(first) ==
            IF ~first.ok \/ ~IsSmallInteger(first.opcode) THEN no
            ELSE Keys(DecodeOP_N(first.opcode), MultisigKeys(v, first.pc, << >>))
    IN IF Len(v) < 1 \/ v[Len(v)] # OP_CHECKMULTISIG THEN no
       ELSE First(GetScriptOp(v, 1))

IsPayToScriptHash(v) ==
    Len(v) = 23 /\ v[1] = OP_HASH160 /\ v[2] = 20 /\ v[23] = OP_EQUAL

\* a faulty test that knows version 0 only
IsWitnessProgramV0Only(v) ==
    IF Len(v) >= 4 /\ Len(v) <= 42 /\ v[1] = OP_0 /\ v[2] + 2 = Len(v)
    THEN [ok |-> TRUE, version |-> 0, program |-> Drop(v, 2)]
    ELSE [ok |-> FALSE, version |-> 0, program |-> << >>]

\* a faulty test that puts no bound on the script size
IsWitnessProgramAnySize(v) ==
    IF Len(v) >= 2 /\ (v[1] = OP_0 \/ (v[1] >= OP_1 /\ v[1] <= OP_16))
       /\ v[2] + 2 = Len(v)
    THEN [ok |-> TRUE, version |-> DecodeOP_N(v[1]), program |-> Drop(v, 2)]
    ELSE [ok |-> FALSE, version |-> 0, program |-> << >>]

\* a faulty test that does not compare the push length with the script size
IsWitnessProgramAnyLength(v) ==
    IF Len(v) >= 4 /\ Len(v) <= 42 /\ (v[1] = OP_0 \/ (v[1] >= OP_1 /\ v[1] <= OP_16))
    THEN [ok |-> TRUE, version |-> DecodeOP_N(v[1]), program |-> Drop(v, 2)]
    ELSE [ok |-> FALSE, version |-> 0, program |-> << >>]

\* IsWitnessProgram: [ok, version, program]
IsWitnessProgram(v) ==
    LET no == [ok |-> FALSE, version |-> 0, program |-> << >>]
    IN IF Len(v) < 4 \/ Len(v) > 42 THEN no
       ELSE IF v[1] # OP_0 /\ (v[1] < OP_1 \/ v[1] > OP_16) THEN no
       ELSE IF v[2] + 2 = Len(v)
       THEN [ok |-> TRUE, version |-> DecodeOP_N(v[1]), program |-> Drop(v, 2)]
       ELSE no

\* IsPushOnly(pc, end) on script v
RECURSIVE IsPushOnly(_, _)
IsPushOnly(v, pc) ==
    IF pc >= Len(v) + 1 THEN TRUE
    ELSE LET Read(r) ==
                 IF ~r.ok THEN FALSE
                 ELSE IF r.opcode > OP_16 THEN FALSE
                 ELSE IsPushOnly(v, r.pc)
         IN Read(GetScriptOp(v, pc))

\* a faulty clear that leaves the elements of an earlier call in place
ClearSkipped(vec) == vec

\* vSolutionsRet.clear() on entry
Clear(vec) == << >>

\* Solver(scriptPubKey, vSolutionsRet): [type, solutions], solutions being
\* vSolutionsRet on return
Solver(v, vSolutionsRet) ==
    LET Multisig(cleared, multi) ==
            IF multi.ok
            THEN [type |-> "MULTISIG",
                  solutions |-> (Append(cleared, << multi.required % 256 >>)
                                 \o multi.pubkeys)
                                \o << << Len(multi.pubkeys) % 256 >> >>]
            ELSE [type |-> "NONSTANDARD", solutions |-> << >>]
        PubKeyHash(cleared, p2pkh) ==
            IF p2pkh.ok
            THEN [type |-> "PUBKEYHASH", solutions |-> Append(cleared, p2pkh.pubkeyhash)]
            ELSE Multisig(cleared, MatchMultisig(v))
        PubKey(cleared, p2pk) ==
            IF p2pk.ok
            THEN [type |-> "PUBKEY", solutions |-> Append(cleared, p2pk.pubkey)]
            ELSE PubKeyHash(cleared, MatchPayToPubkeyHash(v))
        Witness(cleared, wit) ==
            IF wit.ok
            THEN IF wit.version = 0 /\ Len(wit.program) = WITNESS_V0_KEYHASH_SIZE
                 THEN [type |-> "WITNESS_V0_KEYHASH",
                       solutions |-> Append(cleared, wit.program)]
                 ELSE IF wit.version = 0 /\ Len(wit.program) = WITNESS_V0_SCRIPTHASH_SIZE
                 THEN [type |-> "WITNESS_V0_SCRIPTHASH",
                       solutions |-> Append(cleared, wit.program)]
                 ELSE IF wit.version = 1 /\ Len(wit.program) = WITNESS_V1_TAPROOT_SIZE
                 THEN [type |-> "WITNESS_V1_TAPROOT",
                       solutions |-> Append(cleared, wit.program)]
                 ELSE IF wit.version # 0
                 THEN [type |-> "WITNESS_UNKNOWN",
                       solutions |-> Append(Append(cleared, << wit.version % 256 >>),
                                            wit.program)]
                 ELSE [type |-> "NONSTANDARD", solutions |-> cleared]
            ELSE IF Len(v) >= 1 /\ v[1] = OP_RETURN /\ IsPushOnly(v, 2)
            THEN [type |-> "NULL_DATA", solutions |-> cleared]
            ELSE PubKey(cleared, MatchPayToPubkey(v))
        Cleared(cleared) ==
            IF IsPayToScriptHash(v)
            THEN [type |-> "SCRIPTHASH", solutions |-> Append(cleared, SubSeq(v, 3, 22))]
            ELSE Witness(cleared, IsWitnessProgram(v))
    IN Cleared(Clear(vSolutionsRet))

-----------------------------------------------------------------------------
(* Network parameters.                                                     *)

\* bitcoin::core::Params: base58Prefixes[PUBKEY_ADDRESS],
\* base58Prefixes[SCRIPT_ADDRESS] and bech32_hrp ("bc", "tb", "tb", "bcrt")
MainParams ==
    [network |-> "main", PUBKEY_ADDRESS |-> << 0 >>, SCRIPT_ADDRESS |-> << 5 >>,
     bech32_hrp |-> << 98, 99 >>]
TestNetParams ==
    [network |-> "test", PUBKEY_ADDRESS |-> << 111 >>, SCRIPT_ADDRESS |-> << 196 >>,
     bech32_hrp |-> << 116, 98 >>]
SigNetParams ==
    [network |-> "signet", PUBKEY_ADDRESS |-> << 111 >>, SCRIPT_ADDRESS |-> << 196 >>,
     bech32_hrp |-> << 116, 98 >>]
RegTestParams ==
    [network |-> "regtest", PUBKEY_ADDRESS |-> << 111 >>, SCRIPT_ADDRESS |-> << 196 >>,
     bech32_hrp |-> << 98, 99, 114, 116 >>]

Networks == { MainParams, TestNetParams, SigNetParams, RegTestParams }

\* the printable ASCII characters, from code 32 on (the grave accent, code 96,
\* cannot be written in a string here and is shown as a question mark)
Printable ==
    <<
       " ", "!", "\"", "#", "$", "%", "&", "'", "(", ")", "*", "+",
       ",", "-", ".", "/", "0", "1", "2", "3", "4", "5", "6", "7",
       "8", "9", ":", ";", "<", "=", ">", "?", "@", "A", "B", "C",
       "D", "E", "F", "G", "H", "I", "J", "K", "L", "M", "N", "O",
       "P", "Q", "R", "S", "T", "U", "V", "W", "X", "Y", "Z", "[",
       "\\", "]", "^", "_", "?", "a", "b", "c", "d", "e", "f", "g",
       "h", "i", "j", "k", "l", "m", "n", "o", "p", "q", "r", "s",
       "t", "u", "v", "w", "x", "y", "z", "{", "|", "}", "~" >>

\* the std::string of a text of printable characters
RECURSIVE StringOf(_)
StringOf(s) == IF s = << >> THEN "" ELSE Printable[s[1] - 31] \o StringOf(Tail(s))

\* a faulty comparison that takes the whole of s for the prefix
StartsWithWhole(s, prefix) == s = prefix

\* s starts with the bytes of prefix (std::equal over the prefix)
StartsWith(s, prefix) == Len(s) >= Len(prefix) /\ Take(s, Len(prefix)) = prefix

\* v.insert(v.begin() + k, first, last)
InsertAt(v, k, range) == Take(v, k) \o range \o Drop(v, k)

-----------------------------------------------------------------------------
(* ExtractDestination.                                                     *)

\* a faulty Multisig loop that stops one entry early
RECURSIVE MultisigAddressesButLast(_, _, _, _, _)
MultisigAddressesButLast(vSol, p, addrs, i, hi) ==
    IF i >= hi THEN addrs
    ELSE IF Len(vSol[i + 1]) = 0
    THEN MultisigAddressesButLast(vSol, p, addrs, i + 1, hi)
    ELSE MultisigAddressesButLast(vSol, p,
             Append(addrs, EncodeBase58Check(p.PUBKEY_ADDRESS \o vSol[i + 1])),
             i + 1, hi)

\* the Multisig loop over vSolutions[i], i from lo to hi (0-based indices)
RECURSIVE MultisigAddresses(_, _, _, _, _)
MultisigAddresses(vSol, p, addrs, i, hi) ==
    IF i > hi THEN addrs
    ELSE IF Len(vSol[i + 1]) = 0
    THEN MultisigAddresses(vSol, p, addrs, i + 1, hi)
    ELSE MultisigAddresses(vSol, p,
             Append(addrs, EncodeBase58Check(p.PUBKEY_ADDRESS \o vSol[i + 1])),
             i + 1, hi)

\* a faulty status: true once the Multisig loop has appended an address
MultisigReturnTruthy(addrs) == addrs # << >>

\* what the Multisig branch returns: false for an empty list, and false again
\* from the statement after the branch
MultisigReturn(addrs) == IF addrs = << >> THEN FALSE ELSE FALSE

\* ExtractDestination(scriptPubKey, params, addressRet): [ret, addressRet]
ExtractDestination(v, p, addrs) ==
    LET Multisig(out) == [ret |-> MultisigReturn(out), addressRet |-> out]
        Switch(which, vSol) ==
       CASE which = "PUBKEY" ->
              IF Len(vSol[1]) = 0 THEN [ret |-> FALSE, addressRet |-> addrs]
              ELSE [ret |-> TRUE,
                    addressRet |-> Append(addrs,
                        EncodeBase58Check(p.PUBKEY_ADDRESS \o vSol[1]))]
         [] which = "PUBKEYHASH" ->
              [ret |-> TRUE,
               addressRet |-> Append(addrs,
                   EncodeBase58Check(p.PUBKEY_ADDRESS \o Take(vSol[1], 20)))]
         [] which = "SCRIPTHASH" ->
              [ret |-> TRUE,
               addressRet |-> Append(addrs,
                   EncodeBase58Check(p.SCRIPT_ADDRESS \o Take(vSol[1], 20)))]
         [] which = "WITNESS_V0_KEYHASH" ->
              [ret |-> TRUE,
               addressRet |-> Append(addrs,
                   Bech32Encode("BECH32", p.bech32_hrp,
                                << 0 >> \o ConvertBits(8, 5, TRUE, vSol[1]).out))]
         [] which = "WITNESS_V0_SCRIPTHASH" ->
              [ret |-> TRUE,
               addressRet |-> Append(addrs,
                   Bech32Encode("BECH32", p.bech32_hrp,
                                << 0 >> \o ConvertBits(8, 5, TRUE, vSol[1]).out))]
         [] which = "WITNESS_V1_TAPROOT" ->
              [ret |-> TRUE,
               addressRet |-> Append(addrs,
                   Bech32Encode("BECH32M", p.bech32_hrp,
                                << 1 >> \o ConvertBits(8, 5, TRUE, vSol[1]).out))]
         [] which = "WITNESS_UNKNOWN" ->
              IF vSol[1][1] < 1 \/ vSol[1][1] > 16
                 \/ Len(vSol[2]) < 2 \/ Len(vSol[2]) > 40
              THEN [ret |-> FALSE, addressRet |-> addrs]
              ELSE [ret |-> TRUE,
                    addressRet |-> Append(addrs,
                        Bech32Encode("BECH32M", p.bech32_hrp,
                            << vSol[1][1] >> \o
                            ConvertBits(8, 5, TRUE, Take(vSol[2], Len(vSol[2]))).out))]
         [] which = "MULTISIG" ->
              Multisig(MultisigAddresses(vSol, p, addrs, 1, Len(vSol) - 2))
         [] OTHER -> [ret |-> FALSE, addressRet |-> addrs]
        Solved(solved) == Switch(solved.type, solved.solutions)
    IN Solved(Solver(v, << >>))

-----------------------------------------------------------------------------
(* The inputs of the calls.                                                *)

\* payload bytes are drawn from the patterns Fill(n, seed), seed in 1..MaxSeed
MaxSeed == 1
\* a caller's address list is passed again while it holds fewer than this many
MaxAddresses == 2
\* ConvertBits is given every sequence over ConvertBytes of at most this length
MaxLen == 5

Seeds == 1..MaxSeed

\* n bytes: all zero for seed 0, an arithmetic progression otherwise
Fill(n, seed) == [i \in 1..n |-> (seed * (i + 16)) % 256]

Key33(seed) == << 2 + (seed % 2) >> \o Fill(32, seed)
Key65(seed) == << 4 >> \o Fill(64, seed)

P2PKHScript(h) == << OP_DUP, OP_HASH160, 20 >> \o h \o << OP_EQUALVERIFY, OP_CHECKSIG >>
P2SHScript(h) == << OP_HASH160, 20 >> \o h \o << OP_EQUAL >>
\* version opcode, bare push of the program
WitnessScript(version, program) ==
    << EncodeOP_N(version), Len(program) >> \o program
P2PKScript(key) == << Len(key) >> \o key \o << OP_CHECKSIG >>

\* the scripts a flow may start from
Scripts ==
    UNION { { P2PKHScript(Fill(20, d)), P2SHScript(Fill(20, d)),
              WitnessScript(0, Fill(20, d)), WitnessScript(0, Fill(32, d)),
              WitnessScript(1, Fill(32, d)),
              \* other witness programs
              WitnessScript(1, Fill(20, d)), WitnessScript(2, Fill(2, d)),
              WitnessScript(16, Fill(40, d)), WitnessScript(0, Fill(2, d)),
              \* a program of 41 bytes is no witness program
              WitnessScript(2, Fill(41, d)),
              \* data carriers
              << OP_RETURN, 2 >> \o Fill(2, d), << OP_RETURN, 3 >> \o Fill(2, d),
              \* keys
              P2PKScript(Key33(d)), P2PKScript(Key65(d)),
              P2PKScript(<< 5 >> \o Fill(32, d)),
              << OP_1, 33 >> \o Key33(d) \o << OP_1, OP_CHECKMULTISIG >>,
              << OP_1, 33 >> \o Key33(d) \o << 65 >> \o Key65(d)
                  \o << OP_1 + 1, OP_CHECKMULTISIG >>,
              << OP_1 + 1, 33 >> \o Key33(d) \o << OP_PUSHDATA1, 33 >> \o Key33(d)
                  \o << OP_1 + 1, OP_CHECKMULTISIG >>,
              \* two keys required of one, a missing key, a trailing byte
              << OP_1 + 1, 33 >> \o Key33(d) \o << OP_1, OP_CHECKMULTISIG >>,
              << OP_1, 33 >> \o Key33(d) \o << OP_1 + 1, OP_CHECKMULTISIG >>,
              << OP_1, 33 >> \o Key33(d)
                  \o << OP_1, OP_CHECKMULTISIG, OP_CHECKMULTISIG >> } : d \in Seeds }
    \cup { << >>, << OP_RETURN >>, << OP_RETURN, OP_RESERVED, OP_16 >>,
           << OP_RETURN, OP_DUP >>, << OP_DUP >>, << OP_CHECKMULTISIG >>,
           << OP_1, OP_CHECKMULTISIG >>, << OP_0, OP_0, OP_CHECKMULTISIG >> }

\* the human-readable parts texts are built with
HRPs == { n.bech32_hrp : n \in Networks }

\* the witness versions and program lengths crafted texts carry
CraftVersions == { 0, 1, 2, 16, 17 }
CraftLengths == { 1, 20, 32, 41 }

ToUpper(s) == [i \in 1..Len(s) |-> UpperChar(s[i])]

Range(s) == { s[i] : i \in 1..Len(s) }

\* s with its last character replaced by c
WithLast(s, c) == [s EXCEPT ![Len(s)] = c]

\* every address ExtractDestination emits for a script of Scripts
Addresses ==
    UNION { Range(ExtractDestination(v, n, << >>).addressRet) :
              v \in Scripts, n \in Networks }

\* crafted programs: one of each length, and two whose first byte is the
\* number of bytes that follow it
CraftPrograms ==
    { Fill(len, 1) : len \in CraftLengths }
    \cup { << 2, 170, 187 >>, << 19 >> \o Fill(19, 1) }

\* segwit texts of either checksum for every crafted version and program
CraftedSegwit ==
    { Bech32Encode(enc, hrp, << ver >> \o ConvertBits(8, 5, TRUE, prog).out) :
        enc \in { "BECH32", "BECH32M" }, hrp \in HRPs,
        ver \in CraftVersions, prog \in CraftPrograms }

\* data sections that are wrong in one place, with their checksum
MalformedData ==
    { \* no data section, only a checksum
      << "BECH32", << >> >>, << "BECH32M", << >> >>,
      \* a data section that is only the version
      << "BECH32", << 0 >> >>, << "BECH32M", << 1 >> >>,
      \* non-zero padding bits, and a whole symbol of padding
      << "BECH32M", << 2, 31, 31, 31, 31 >> >>,
      << "BECH32M", << 2, 31, 31, 31, 31, 0, 0, 0, 0 >> >>,
      << "BECH32", << 0, 1 >> >>,
      \* the same under the checksum the version must not use
      << "BECH32", << 2, 31, 31, 31, 31 >> >>, << "BECH32M", << 0, 1 >> >>,
      \* non-zero padding bits after a version above 16
      << "BECH32M", << 17, 31 >> >> }

\* Base58Check payloads of the wrong length or with an unknown prefix
MalformedPayloads ==
    UNION { { n.PUBKEY_ADDRESS \o Fill(19, 1), n.SCRIPT_ADDRESS \o Fill(21, 1),
              n.SCRIPT_ADDRESS } : n \in Networks }
    \cup { << 9 >> \o Fill(20, 1), << >> }

\* texts that are wrong in one place
Malformed ==
    { Bech32Encode(e[1], hrp, e[2]) : e \in MalformedData, hrp \in HRPs }
    \* a longer human-readable part with the same beginning
    \cup { Bech32Encode("BECH32", hrp \o << 120 >>, << 0 >> \o Fill(32, 0)) :
             hrp \in HRPs }
    \* the same with no data section, and with a version this checksum is not for
    \cup UNION { { Bech32Encode("BECH32", hrp \o << 120 >>, << >>),
                  Bech32Encode("BECH32", hrp \o << 120 >>, << 1, 31 >>) } :
                hrp \in HRPs }
    \* only the human-readable part
    \cup UNION { { hrp, hrp \o << 49 >> } : hrp \in HRPs }
    \cup { EncodeBase58Check(payload) : payload \in MalformedPayloads }
    \* a checksum that does not match
    \cup { EncodeBase58(n.PUBKEY_ADDRESS \o Fill(20, 1) \o << 1, 2, 3, 4 >>) :
             n \in Networks }
    \cup { << >>, << 49 >>, << 48 >>, << 32 >> }

\* an address in upper case, or with its last character replaced
Damaged ==
    UNION { { ToUpper(a), WithLast(a, 113) } : a \in Addresses }

\* the texts a flow may start from
Texts == Addresses \cup CraftedSegwit \cup Malformed \cup Damaged

\* the byte sequences ConvertBits is given
ConvertBytes == { 0, 165, 255 }
RECURSIVE SeqsUpTo(_, _)
SeqsUpTo(S, n) ==
    IF n = 0 THEN { << >> }
    ELSE LET Longer(shorter) == shorter \cup { Append(q, b) : q \in shorter, b \in S }
         IN Longer(SeqsUpTo(S, n - 1))
ByteSeqs ==
    SeqsUpTo(ConvertBytes, MaxLen)
    \cup { Fill(n, d) : n \in { 20, 32, 40 }, d \in Seeds }

\* the 5-bit symbols ConvertBits<5, 8, false> is given on its own
ConvertSymbols == { 0, 1, 16, 31 }

\* what the three decoders DecodeDestination and IsValid call give for a text:
\* bech32::Decode(text), DecodeBase58Check(text, data, 21) and
\* DecodeBase58(text, data, 100)
Decoders(text) ==
    [bech32      |-> Bech32Decode(text),
     base58check |-> DecodeBase58Check(text, 21),
     base58      |-> DecodeBase58(text, 100)]

\* the decoders on the texts of Texts, computed once
DecodersOfTexts == [a \in Texts |-> Decoders(a)]

Decoded(text) ==
    LET Find(table) == IF text \in DOMAIN table THEN table[text] ELSE Decoders(text)
    IN Find(DecodersOfTexts)

-----------------------------------------------------------------------------
(* DecodeDestination and IsValid.                                          *)

\* "byte" for one byte, "bytes" otherwise
ByteStr(n) == IF n = 1 THEN "byte" ELSE "bytes"

\* a faulty check that lets a version 1+ program pass with either checksum
VersionChecksumErrorV0Only(version, encoding) ==
    IF version = 0 /\ encoding # "BECH32"
    THEN "Version 0 witness address must use Bech32 checksum"
    ELSE ""

\* the error of a witness version under the wrong checksum variant, "" if none
VersionChecksumError(version, encoding) ==
    IF version = 0 /\ encoding # "BECH32"
    THEN "Version 0 witness address must use Bech32 checksum"
    ELSE IF version # 0 /\ encoding # "BECH32M"
    THEN "Version 1+ witness address must use Bech32m checksum"
    ELSE ""

\* a faulty failing return that hands the caller an emptied script vector
DecodeFailCleared(v, msg) == [ret |-> FALSE, script |-> << >>, error_str |-> msg]

\* error_str = msg; return false: the caller's script v is not touched
DecodeFail(v, msg) == [ret |-> FALSE, script |-> v, error_str |-> msg]

\* is_bech32: the text begins with the hrp, in either case
IsBech32Hint(text, p) == ToLower(Substr0(text, Len(p.bech32_hrp))) = p.bech32_hrp

\* a faulty generic path that writes a push of the program, as the paths of
\* versions 0 and 1 do
GenericWitnessScriptWithPush(v, version, data) ==
    InsertAt(Append(Append(v, EncodeOP_N(version)), Len(data)), 2, data)

\* script.emplace_back(EncodeOP_N(version));
\* script.insert(script.begin() + 1, data.begin(), data.end())
GenericWitnessScript(v, version, data) ==
    InsertAt(Append(v, EncodeOP_N(version)), 1, data)

\* script.emplace_back(first); script.emplace_back(push);
\* script.insert(script.begin() + 2, data.begin(), data.end()); return true
WitnessPushed(v, first, push, data) ==
    [ret |-> TRUE, script |-> InsertAt(Append(Append(v, first), push), 2, data),
     error_str |-> ""]

\* a faulty order of the last checks: the program size before the version
DecodeProgramSizeFirst(version, data, v) ==
    IF version = 0
    THEN IF Len(data) = 20 THEN WitnessPushed(v, OP_0, EncodePushBytes_N(20), data)
         ELSE IF Len(data) = 32 THEN WitnessPushed(v, OP_0, EncodePushBytes_N(32), data)
         ELSE DecodeFail(v, "Invalid Bech32 v0 address program size ("
                            \o ToString(Len(data)) \o " " \o ByteStr(Len(data))
                            \o "), per BIP141")
    ELSE IF version = 1 /\ Len(data) = WITNESS_V1_TAPROOT_SIZE
    THEN WitnessPushed(v, OP_1, EncodePushBytes_N(32), data)
    ELSE IF Len(data) < 2 \/ Len(data) > BECH32_WITNESS_PROG_MAX_LEN
    THEN DecodeFail(v, "Invalid Bech32 address program size ("
                       \o ToString(Len(data)) \o " " \o ByteStr(Len(data)) \o ")")
    ELSE IF version > 16
    THEN DecodeFail(v, "Invalid Bech32 address witness version")
    ELSE [ret |-> TRUE, script |-> GenericWitnessScript(v, version, data),
          error_str |-> ""]

\* what follows a successful ConvertBits<5, 8, false> in DecodeDestination,
\* data being the converted program
DecodeProgram(version, data, v) ==
    IF version = 0
    THEN IF Len(data) = 20 THEN WitnessPushed(v, OP_0, EncodePushBytes_N(20), data)
         ELSE IF Len(data) = 32 THEN WitnessPushed(v, OP_0, EncodePushBytes_N(32), data)
         ELSE DecodeFail(v, "Invalid Bech32 v0 address program size ("
                            \o ToString(Len(data)) \o " " \o ByteStr(Len(data))
                            \o "), per BIP141")
    ELSE IF version = 1 /\ Len(data) = WITNESS_V1_TAPROOT_SIZE
    THEN WitnessPushed(v, OP_1, EncodePushBytes_N(32), data)
    ELSE IF version > 16
    THEN DecodeFail(v, "Invalid Bech32 address witness version")
    ELSE IF Len(data) < 2 \/ Len(data) > BECH32_WITNESS_PROG_MAX_LEN
    THEN DecodeFail(v, "Invalid Bech32 address program size ("
                       \o ToString(Len(data)) \o " " \o ByteStr(Len(data)) \o ")")
    ELSE [ret |-> TRUE, script |-> GenericWitnessScript(v, version, data),
          error_str |-> ""]

\* the Bech32 branch of DecodeDestination (from data.clear() on), dec being
\* bech32::Decode(str)
DecodeBech32Branch(dec, v, p) ==
    LET Converted(version, conv) ==
            IF conv.ok THEN DecodeProgram(version, conv.out, v)
            ELSE DecodeFail(v, "Invalid padding in Bech32 data section")
        Version(version, verr) ==
            IF verr # "" THEN DecodeFail(v, verr)
            ELSE Converted(version, ConvertBits(5, 8, FALSE, Tail(dec.data)))
    IN IF dec.encoding = "BECH32" \/ dec.encoding = "BECH32M"
       THEN IF dec.data = << >> THEN DecodeFail(v, "Empty Bech32 data section")
            ELSE IF dec.hrp # p.bech32_hrp
            THEN DecodeFail(v,
                     "Invalid or unsupported prefix for Segwit (Bech32) address (expected "
                     \o StringOf(p.bech32_hrp) \o ", got " \o StringOf(dec.hrp) \o ").")
            ELSE Version(dec.data[1], VersionChecksumError(dec.data[1], dec.encoding))
       ELSE DecodeFail(v, "Invalid address")

\* DecodeDestination(str, script, params, error_str): [ret, script, error_str],
\* script and error_str being the caller's objects on return
DecodeDestination(text, v, p) ==
    LET pubkey_prefix == p.PUBKEY_ADDRESS
        script_prefix == p.SCRIPT_ADDRESS
        \* the Base58 branch, data being what DecodeBase58Check stored
        Base58Branch(data) ==
            IF Len(data) = 20 + Len(pubkey_prefix) /\ StartsWith(data, pubkey_prefix)
            THEN [ret |-> TRUE,
                  script |-> Append(Append(
                      InsertAt(Append(Append(Append(v, OP_DUP), OP_HASH160),
                                      EncodePushBytes_N(20)),
                               3, Drop(data, Len(pubkey_prefix))),
                      OP_EQUALVERIFY), OP_CHECKSIG),
                  error_str |-> ""]
            ELSE IF Len(data) = 20 + Len(script_prefix) /\ StartsWith(data, script_prefix)
            THEN [ret |-> TRUE,
                  script |-> Append(
                      InsertAt(Append(Append(v, OP_HASH160), EncodePushBytes_N(20)),
                               2, Drop(data, Len(script_prefix))),
                      OP_EQUAL),
                  error_str |-> ""]
            ELSE IF StartsWith(data, script_prefix) \/ StartsWith(data, pubkey_prefix)
            THEN DecodeFail(v, "Invalid length for Base58 address (P2PKH or P2SH)")
            ELSE DecodeFail(v, "Invalid or unsupported Base58-encoded address.")
        Branch(is_bech32, d) ==
            IF ~is_bech32 /\ d.base58check.ok THEN Base58Branch(d.base58check.data)
            ELSE IF ~is_bech32
            THEN IF ~d.base58.ok
                 THEN DecodeFail(v,
                          "Invalid or unsupported Segwit (Bech32) or Base58 encoding.")
                 ELSE DecodeFail(v,
                          "Invalid checksum or length of Base58 address (P2PKH or P2SH)")
            ELSE DecodeBech32Branch(d.bech32, v, p)
    IN Branch(IsBech32Hint(text, p), Decoded(text))

\* a faulty acceptance test that lets witness versions above 16 pass
IsValidProgramAnyVersion(version, size) ==
    IF version = 0 THEN size = 20 \/ size = 32
    ELSE IF version = 1 /\ size = WITNESS_V1_TAPROOT_SIZE THEN TRUE
    ELSE IF size < 2 \/ size > BECH32_WITNESS_PROG_MAX_LEN THEN FALSE
    ELSE TRUE

\* IsValid's answer for a converted program of the given version and size
IsValidProgram(version, size) ==
    IF version = 0
    THEN IF size = 20 \/ size = 32 THEN TRUE ELSE FALSE
    ELSE IF version = 1 /\ size = WITNESS_V1_TAPROOT_SIZE THEN TRUE
    ELSE IF version > 16 \/ size < 2 \/ size > BECH32_WITNESS_PROG_MAX_LEN
    THEN FALSE
    ELSE TRUE

\* IsValid(str, params)
IsValid(text, p) ==
    LET pubkey_prefix == p.PUBKEY_ADDRESS
        script_prefix == p.SCRIPT_ADDRESS
        Base58Branch(data) ==
            IF Len(data) = 20 + Len(pubkey_prefix) /\ StartsWith(data, pubkey_prefix)
            THEN TRUE
            ELSE IF Len(data) = 20 + Len(script_prefix) /\ StartsWith(data, script_prefix)
            THEN TRUE
            ELSE FALSE
        Converted(version, conv) ==
            IF conv.ok THEN IsValidProgram(version, Len(conv.out)) ELSE FALSE
        Bech32Branch(dec) ==
            IF dec.encoding = "BECH32" \/ dec.encoding = "BECH32M"
            THEN IF dec.data = << >> THEN FALSE
                 ELSE IF dec.hrp # p.bech32_hrp THEN FALSE
                 ELSE IF dec.data[1] = 0 /\ dec.encoding # "BECH32" THEN FALSE
                 ELSE IF dec.data[1] # 0 /\ dec.encoding # "BECH32M" THEN FALSE
                 ELSE Converted(dec.data[1], ConvertBits(5, 8, FALSE, Tail(dec.data)))
            ELSE FALSE
        Branch(is_bech32, d) ==
            IF ~is_bech32 /\ d.base58check.ok THEN Base58Branch(d.base58check.data)
            ELSE IF ~is_bech32 THEN FALSE
            ELSE Bech32Branch(d.bech32)
    IN IF text = << >> THEN FALSE
       ELSE Branch(IsBech32Hint(text, p), Decoded(text))

-----------------------------------------------------------------------------
(* The calls.  The first call of a caller takes its argument from Scripts  *)
(* or Texts; a later call is given what the caller holds by then: the      *)
(* script DecodeDestination wrote, an address ExtractDestination emitted,  *)
(* the text or the script of the call before (Solver, which keeps no       *)
(* result but its vector, is called again on any script).  A vector passed *)
(* by reference is a fresh one or the one an earlier call filled.          *)

Init ==
    /\ op = "init"
    /\ params \in Networks
    /\ scriptPubKey = << >>
    /\ whichType = "none"
    /\ vSolutions = << >>
    /\ addressRet = << >>
    /\ emitted = 0
    /\ str = << >>
    /\ entry = << >>
    /\ script = << >>
    /\ error_str = ""
    /\ ret = FALSE
    /\ valid = "none"
    /\ vals = << >>
    /\ to5 = "none"
    /\ to8 = "none"
    /\ self = "none"
    /\ tables = << >>
    /\ before = << >>
    /\ call = "none"
    /\ aborted = ""

\* the scripts the caller can pass next
ScriptArgs ==
    IF op \in { "init", "Solver" } THEN Scripts
    ELSE IF op = "DecodeDestination" THEN { script }
    ELSE { scriptPubKey }

\* the texts the caller can pass next
TextArgs ==
    IF op = "init" THEN Texts
    ELSE IF op = "ExtractDestination" THEN Range(addressRet)
    ELSE { str }

\* the address lists the caller can pass next
ListArgs == IF op = "ExtractDestination" THEN { addressRet } ELSE { << >> }

\* Solver(v, vSolutions), on the caller's vSolutions vector: a fresh one at
\* first, the one the call before has filled from then on
SolverCall(v) ==
    /\ op \in { "init", "Solver" }
    /\ \E r \in { Solver(v, vSolutions) } :
          /\ whichType' = r.type
          /\ vSolutions' = r.solutions
    /\ scriptPubKey' = v
    /\ op' = "Solver"
    /\ UNCHANGED << params, addressRet, emitted, str, entry, script, error_str,
                    ret, valid, convertVars,
                    debugVars >>

\* ExtractDestination(v, params, list)
ExtractDestinationCall(v, list) ==
    /\ op \in { "init", "ExtractDestination", "DecodeDestination" }
    /\ op = "DecodeDestination" => ret
    /\ Len(list) < MaxAddresses
    /\ \E r \in { ExtractDestination(v, params, list) } :
          /\ ret' = r.ret
          /\ addressRet' = r.addressRet
          /\ emitted' = Len(r.addressRet) - Len(list)
    /\ scriptPubKey' = v
    /\ op' = "ExtractDestination"
    /\ UNCHANGED << params, whichType, vSolutions, str, entry, script, error_str,
                    valid, convertVars,
                    debugVars >>

\* DecodeDestination(a, buffer, params, error_str), buffer a fresh vector or
\* the vector a call that was given a fresh one has written
DecodeDestinationCall(a, buffer) ==
    /\ op \in { "init", "ExtractDestination", "DecodeDestination" }
    /\ op = "ExtractDestination" => Len(addressRet) = emitted
    /\ buffer # << >> => entry = << >>
    /\ \E r \in { DecodeDestination(a, buffer, params) } :
          /\ ret' = r.ret
          /\ script' = r.script
          /\ error_str' = r.error_str
    /\ str' = a
    /\ entry' = buffer
    /\ valid' = "none"
    /\ op' = "DecodeDestination"
    /\ UNCHANGED << params, scriptPubKey, whichType, vSolutions, addressRet, emitted,
                    convertVars,
                    debugVars >>

\* IsValid(str, params) on the text DecodeDestination was given
IsValidCall(a) ==
    /\ op = "DecodeDestination"
    /\ valid' = IsValid(a, params)
    /\ str' = a
    /\ op' = "IsValid"
    /\ UNCHANGED << params, scriptPubKey, whichType, vSolutions, addressRet, emitted,
                    entry, script, error_str, ret, convertVars,
                    debugVars >>

Next ==
    \/ \E v \in ScriptArgs : SolverCall(v)
    \/ \E v \in ScriptArgs : \E list \in ListArgs : ExtractDestinationCall(v, list)
    \/ \E a \in TextArgs : \E buffer \in { << >>, script } :
          DecodeDestinationCall(a, buffer)
    \* the vector of a successful call given again, with the text damaged
    \/ /\ op = "DecodeDestination" /\ ret
       /\ DecodeDestinationCall(WithLast(str, 113), script)
    \/ \E a \in TextArgs : IsValidCall(a)

Spec == Init /\ [][Next]_vars

-----------------------------------------------------------------------------
(* Solver on its own, on scripts that lie between its templates.           *)

\* the scripts of Scripts with the bytes the templates test replaced: the
\* first by the first byte of another template, the second by the size less
\* two, the last by the last byte of another template
TemplateScripts ==
    UNION { IF Len(v) < 3 THEN { v }
            ELSE { [v EXCEPT ![1] = first,
                             ![2] = IF sized THEN Len(v) - 2 ELSE @,
                             ![Len(v)] = last] :
                     first \in { v[1], OP_0, OP_1, OP_1 + 1, OP_16, OP_RETURN,
                                 OP_HASH160, OP_DUP, COMPRESSED_SIZE, SIZE },
                     sized \in BOOLEAN,
                     last \in { v[Len(v)], OP_CHECKMULTISIG, OP_CHECKSIG, OP_EQUAL } } :
            v \in Scripts }

\* one Solver call on a fresh vSolutions vector
NextTemplates == op = "init" /\ \E v \in TemplateScripts : SolverCall(v)

SpecTemplates == Init /\ [][NextTemplates]_vars

-----------------------------------------------------------------------------
(* ConvertBits on its own: 8-to-5 with padding, then 5-to-8 without, and    *)
(* 5-to-8 without padding on symbols of any origin, then 8-to-5 again.     *)

InitConvertBits ==
    /\ op = "init"
    /\ params = MainParams
    /\ scriptPubKey = << >>
    /\ whichType = "none"
    /\ vSolutions = << >>
    /\ addressRet = << >>
    /\ emitted = 0
    /\ str = << >>
    /\ entry = << >>
    /\ script = << >>
    /\ error_str = ""
    /\ ret = FALSE
    /\ valid = "none"
    /\ vals \in ByteSeqs \cup SeqsUpTo(ConvertSymbols, MaxLen)
                \cup { [i \in 1..n |-> c] : n \in { 8, 16 }, c \in ConvertSymbols }
    /\ to5 = "none"
    /\ to8 = "none"
    /\ self = "none"
    /\ tables = << >>
    /\ before = << >>
    /\ call = "none"
    /\ aborted = ""

\* ConvertBits<8, 5, true>(outfn, vals.begin(), vals.end())
ConvertBitsTo5Call ==
    /\ op = "init"
    /\ to5' = ConvertBits(8, 5, TRUE, vals)
    /\ op' = "ConvertBits<8,5,true>"
    /\ UNCHANGED << params, scriptPubKey, whichType, vSolutions, addressRet, emitted,
                    str, entry, script, error_str, ret, valid, vals, to8,
                    debugVars >>

\* ConvertBits<5, 8, false> on what the first call put out
ConvertBitsTo8Call ==
    /\ op = "ConvertBits<8,5,true>"
    /\ to8' = ConvertBits(5, 8, FALSE, to5.out)
    /\ op' = "ConvertBits<5,8,false>"
    /\ UNCHANGED << params, scriptPubKey, whichType, vSolutions, addressRet, emitted,
                    str, entry, script, error_str, ret, valid, vals, to5,
                    debugVars >>

\* ConvertBits<5, 8, false>(outfn, vals.begin(), vals.end()), vals being
\* 5-bit symbols
ConvertBitsSymbolsCall ==
    /\ op = "init"
    /\ \A i \in DOMAIN vals : vals[i] < 32
    /\ to8' = ConvertBits(5, 8, FALSE, vals)
    /\ op' = "ConvertBits<5,8,false>(vals)"
    /\ UNCHANGED << params, scriptPubKey, whichType, vSolutions, addressRet, emitted,
                    str, entry, script, error_str, ret, valid, vals, to5,
                    debugVars >>

\* ConvertBits<8, 5, true> on the bytes the call on symbols has put out
ConvertBitsBackCall ==
    /\ op = "ConvertBits<5,8,false>(vals)"
    /\ to8.ok
    /\ to5' = ConvertBits(8, 5, TRUE, to8.out)
    /\ op' = "ConvertBits<8,5,true>(to8)"
    /\ UNCHANGED << params, scriptPubKey, whichType, vSolutions, addressRet, emitted,
                    str, entry, script, error_str, ret, valid, vals, to8,
                    debugVars >>

NextConvertBits ==
    \/ ConvertBitsTo5Call
    \/ ConvertBitsTo8Call
    \/ ConvertBitsSymbolsCall
    \/ ConvertBitsBackCall

SpecConvertBits == InitConvertBits /\ [][NextConvertBits]_vars

-----------------------------------------------------------------------------
(* The debug action cleartable of keymng and utxo_manage.                  *)

\* a table holds at most this many rows when cleartable is called
MaxRows == 3

\* the multi-index tables and the singletons the action of contract c names
MultiIndexTables(c) ==
    IF c = "keymng" THEN { "nodes" } ELSE { "utxos", "blocks", "consensusblk" }
Singletons(c) ==
    IF c = "keymng" THEN { "globalid" } ELSE { "block.extra", "chainstate", "config" }

\* a scope other than get_self().value
OtherScope == "scope1"

\* a faulty limit that takes max_rows = 0 for a limit of no rows
RowsToClearZeroRows(max_rows) == IF ~max_rows.present THEN -1 ELSE max_rows.value

\* rows_to_clear = (!max_rows || *max_rows == 0) ? -1 : *max_rows, a uint64_t:
\* the value 2^64 - k is written -k, which decrements and compares with 0 as
\* the unsigned value does
RowsToClear(max_rows) ==
    IF ~max_rows.present \/ max_rows.value = 0 THEN -1 ELSE max_rows.value

\* clear_table(table, rows_to_clear): the table when the loop
\* while (itr != table.end() && rows_to_clear--) itr = table.erase(itr) ends
RECURSIVE clear_table(_, _)
clear_table(table, rows) ==
    IF table # << >> /\ rows # 0 THEN clear_table(Tail(table), rows - 1)
    ELSE table

\* keymng::cleartable(table_name, scope, max_rows) of contract c on tables tb:
\* [tables, aborted]; ca holds the arguments and the authorizer
keymng_cleartable(c, tb, ca) ==
    IF ca.auth # c THEN [tables |-> tb, aborted |-> "missing authority of " \o c]
    ELSE IF ca.table_name = "globalid"
    THEN [tables |-> [tb EXCEPT ![<< "globalid", c >>] = << >>], aborted |-> ""]
    ELSE IF ca.table_name = "nodes"
    THEN [tables |-> [tb EXCEPT ![<< "nodes", c >>]
                                    = clear_table(@, RowsToClear(ca.max_rows))],
          aborted |-> ""]
    ELSE [tables |-> tb,
          aborted |-> "keymng::cleartable: [table_name] unknown table to clear"]

\* utxo_manage::cleartable(table_name, scope, max_rows)
utxo_manage_cleartable(c, tb, ca) ==
    LET ClearRows(name, rows) ==
            [tables |-> [tb EXCEPT ![<< name, c >>] = clear_table(@, rows)],
             aborted |-> ""]
        Remove(name, value) ==
            [tables |-> [tb EXCEPT ![<< name, value >>] = << >>], aborted |-> ""]
    IN IF ca.auth # c THEN [tables |-> tb, aborted |-> "missing authority of " \o c]
       ELSE IF ca.table_name = "utxos" THEN ClearRows("utxos", RowsToClear(ca.max_rows))
       ELSE IF ca.table_name = "blocks" THEN ClearRows("blocks", RowsToClear(ca.max_rows))
       ELSE IF ca.table_name = "block.extra"
       THEN Remove("block.extra", IF ca.scope.present THEN ca.scope.value ELSE c)
       ELSE IF ca.table_name = "consensusblk"
       THEN ClearRows("consensusblk", RowsToClear(ca.max_rows))
       ELSE IF ca.table_name = "chainstate" THEN Remove("chainstate", c)
       ELSE IF ca.table_name = "config" THEN Remove("config", c)
       ELSE [tables |-> tb,
             aborted |-> "utxomng.xsat::cleartable: [table_name] unknown table to clear"]

\* the calls contract c can be sent: every table name and one it does not
\* know, with and without scope and max_rows, authorized by c or by another
CleartableArgs(c) ==
    [table_name : MultiIndexTables(c) \cup Singletons(c) \cup { "unknown" },
     scope      : { [present |-> FALSE, value |-> c],
                    [present |-> TRUE, value |-> c],
                    [present |-> TRUE, value |-> OtherScope] },
     max_rows   : { [present |-> FALSE, value |-> 0] }
                  \cup { [present |-> TRUE, value |-> n] : n \in 0..(MaxRows + 1) },
     auth       : { c, "someone" }]

\* a contract whose multi-index tables hold R rows each and whose singletons
\* are all set or all unset; block.extra exists in two scopes
InitClearTable ==
    /\ op = "init"
    /\ params = MainParams
    /\ scriptPubKey = << >>
    /\ whichType = "none"
    /\ vSolutions = << >>
    /\ addressRet = << >>
    /\ emitted = 0
    /\ str = << >>
    /\ entry = << >>
    /\ script = << >>
    /\ error_str = ""
    /\ ret = FALSE
    /\ valid = "none"
    /\ vals = << >>
    /\ to5 = "none"
    /\ to8 = "none"
    /\ self \in { "keymng", "utxo_manage" }
    /\ \E R \in 0..MaxRows : \E set \in BOOLEAN :
          tables = [k \in { << name, self >> :
                              name \in MultiIndexTables(self) \cup Singletons(self) }
                          \cup (IF self = "utxo_manage"
                                THEN { << "block.extra", OtherScope >> } ELSE { }) |->
                      IF k[1] \in MultiIndexTables(self)
                      THEN [i \in 1..R |-> << k[1], i >>]
                      ELSE IF set THEN << << k[1], 1 >> >> ELSE << >>]
    /\ before = << >>
    /\ call = "none"
    /\ aborted = ""

KeymngCleartableCall(ca) ==
    /\ op = "init"
    /\ self = "keymng"
    /\ \E r \in { keymng_cleartable(self, tables, ca) } :
          /\ tables' = r.tables
          /\ aborted' = r.aborted
    /\ before' = tables
    /\ call' = ca
    /\ op' = "cleartable"
    /\ UNCHANGED << params, scriptPubKey, whichType, vSolutions, addressRet, emitted,
                    str, entry, script, error_str, ret, valid, convertVars, self >>

UtxoManageCleartableCall(ca) ==
    /\ op = "init"
    /\ self = "utxo_manage"
    /\ \E r \in { utxo_manage_cleartable(self, tables, ca) } :
          /\ tables' = r.tables
          /\ aborted' = r.aborted
    /\ before' = tables
    /\ call' = ca
    /\ op' = "cleartable"
    /\ UNCHANGED << params, scriptPubKey, whichType, vSolutions, addressRet, emitted,
                    str, entry, script, error_str, ret, valid, convertVars, self >>

NextClearTable ==
    \/ \E ca \in CleartableArgs(self) : KeymngCleartableCall(ca)
    \/ \E ca \in CleartableArgs(self) : UtxoManageCleartableCall(ca)

SpecClearTable == InitClearTable /\ [][NextClearTable]_vars

-----------------------------------------------------------------------------
(* The properties.                                                         *)

\* Solver's kind of a script
KindOf(v) == Solver(v, << >>).type

\* the text was decoded by the Bech32 branch
IsBech32Text(a) == ToLower(Substr0(a, Len(params.bech32_hrp))) = params.bech32_hrp

\* the last call decoded an address that ExtractDestination emitted for
\* scriptPubKey
DecodedEmitted ==
    op = "DecodeDestination" /\ emitted >= 1 /\ str \in Range(addressRet)

\* the last call extracted the addresses of the script a successful
\* DecodeDestination(str) wrote
ExtractedDecoded ==
    op = "ExtractDestination" /\ script # << >> /\ scriptPubKey = script

SingleAddressKinds ==
    { "PUBKEYHASH", "SCRIPTHASH", "WITNESS_V0_KEYHASH", "WITNESS_V0_SCRIPTHASH",
      "WITNESS_V1_TAPROOT" }

\* C1: for a script of kind PubKeyHash, ScriptHash, WitnessV0KeyHash,
\* WitnessV0ScriptHash or WitnessV1Taproot and the Params of any network,
\* DecodeDestination of the address ExtractDestination emitted succeeds and
\* returns a script byte-equal to the original one.
C1_RoundTripFromScript ==
    (DecodedEmitted /\ KindOf(scriptPubKey) \in SingleAddressKinds)
        => (ret /\ script = scriptPubKey)

\* C2: IsValid(a, p) is true exactly when DecodeDestination(a, p) succeeds,
\* for every text a (the empty one included) and every Params p.
C2_IsValidAgrees == op = "IsValid" => (valid = ret)

\* IsValid has accepted a segwit text that DecodeDestination decoded
C2_Witness ==
    op = "IsValid" /\ valid = TRUE /\ ret /\ IsBech32Text(str) /\ entry = << >>

\* C3: when DecodeDestination(a) succeeds with a script of a standard kind,
\* the list ExtractDestination produces for that script under the same Params
\* contains a (lower-cased when a is a Bech32 or Bech32m text).
C3_RoundTripFromAddress ==
    (ExtractedDecoded /\ KindOf(script) # "NONSTANDARD")
        => (IF IsBech32Text(str) THEN ToLower(str) ELSE str) \in Range(addressRet)

\* C4: for a script of any kind but Multisig and NonStandard,
\* ExtractDestination succeeds and yields one or more addresses, and
\* DecodeDestination of each of them returns a script byte-equal to the script.
C4_EveryKindRoundTrips ==
    /\ (op = "ExtractDestination" /\ KindOf(scriptPubKey) \notin { "MULTISIG", "NONSTANDARD" })
          => (ret /\ emitted >= 1)
    /\ (DecodedEmitted /\ KindOf(scriptPubKey) \notin { "MULTISIG", "NONSTANDARD" })
          => (ret /\ script = scriptPubKey)

\* what DecodeDestination must answer for a decoded Bech32-family text:
\* version 0 goes with the Bech32 checksum only, any other version with the
\* Bech32m checksum only, and the two mismatches have their own messages
VersionBound(dec) ==
    /\ ret => (dec.data[1] = 0 <=> dec.encoding = "BECH32")
    /\ (dec.hrp = params.bech32_hrp /\ dec.data[1] = 0 /\ dec.encoding = "BECH32M")
          => (~ret /\ error_str = "Version 0 witness address must use Bech32 checksum")
    /\ (dec.hrp = params.bech32_hrp /\ dec.data[1] # 0 /\ dec.encoding = "BECH32")
          => (~ret /\ error_str = "Version 1+ witness address must use Bech32m checksum")

\* C5: DecodeDestination never succeeds for a Bech32-family text of version 0
\* unless its checksum is Bech32, nor for another version unless its checksum
\* is Bech32m; version 0 under Bech32m and version 1+ under Bech32 (hrp
\* matching, data not empty) fail with the two version/checksum messages.
C5_VersionChecksumBound ==
    (op = "DecodeDestination" /\ Decoded(str).bech32.encoding # "INVALID"
        /\ Decoded(str).bech32.data # << >>)
        => VersionBound(Decoded(str).bech32)

\* a version 1+ text under the Bech32 checksum has just been refused
C5_Witness ==
    /\ op = "DecodeDestination"
    /\ Decoded(str).bech32.encoding = "BECH32"
    /\ Decoded(str).bech32.data # << >>
    /\ Decoded(str).bech32.data[1] = 1
    /\ error_str = "Version 1+ witness address must use Bech32m checksum"

\* the script the Base58 branch must return for the payload data
Base58Script(data) ==
    IF Len(data) = 20 + Len(params.PUBKEY_ADDRESS)
       /\ StartsWith(data, params.PUBKEY_ADDRESS)
    THEN ret /\ script = << OP_DUP, OP_HASH160, 20 >>
                         \o Drop(data, Len(params.PUBKEY_ADDRESS))
                         \o << OP_EQUALVERIFY, OP_CHECKSIG >>
    ELSE IF Len(data) = 20 + Len(params.SCRIPT_ADDRESS)
            /\ StartsWith(data, params.SCRIPT_ADDRESS)
    THEN ret /\ script = << OP_HASH160, 20 >>
                         \o Drop(data, Len(params.SCRIPT_ADDRESS)) \o << OP_EQUAL >>
    ELSE TRUE

\* C6: when the checksummed Base58 decode succeeds, DecodeDestination returns
\* exactly OP_DUP OP_HASH160 0x14 <20 bytes> OP_EQUALVERIFY OP_CHECKSIG for a
\* PUBKEY_ADDRESS payload and exactly OP_HASH160 0x14 <20 bytes> OP_EQUAL for
\* a SCRIPT_ADDRESS payload, the hash bytes in their place between the opcodes.
C6_Base58BranchOutput ==
    (op = "DecodeDestination" /\ ~IsBech32Text(str) /\ Decoded(str).base58check.ok)
        => Base58Script(Decoded(str).base58check.data)

\* what the Bech32 branch must answer for version v and converted program p
SegwitAnswer(v, p) ==
    /\ v = 0 =>
          /\ ret <=> Len(p) \in { 20, 32 }
          /\ ret => script = << OP_0, Len(p) >> \o p
          /\ ~ret => error_str = "Invalid Bech32 v0 address program size ("
                                 \o ToString(Len(p)) \o " "
                                 \o (IF Len(p) = 1 THEN "byte" ELSE "bytes")
                                 \o "), per BIP141"
    /\ (v = 1 /\ Len(p) = 32) => (ret /\ script = << OP_1, 32 >> \o p)

\* the decoded text passes every check before the version switch
SegwitAccepted(dec) ==
    /\ dec.encoding # "INVALID"
    /\ dec.data # << >>
    /\ dec.hrp = params.bech32_hrp
    /\ dec.data[1] = 0 <=> dec.encoding = "BECH32"
    /\ ConvertBits(5, 8, FALSE, Tail(dec.data)).ok

\* C7: with matching hrp, matching checksum and valid padding, version 0
\* succeeds exactly for programs of 20 or 32 bytes and returns OP_0, the
\* length byte and the program, every other version-0 length fails with the
\* BIP141 size message, and version 1 with 32 bytes returns OP_1 0x20 program.
C7_SegwitBranchOutput ==
    (op = "DecodeDestination" /\ SegwitAccepted(Decoded(str).bech32))
        => SegwitAnswer(Decoded(str).bech32.data[1],
                        ConvertBits(5, 8, FALSE, Tail(Decoded(str).bech32.data)).out)

\* the payload shape of each kind
SolutionShape(kind, sol) ==
    CASE kind \in { "NONSTANDARD", "NULL_DATA" } -> sol = << >>
      [] kind = "PUBKEY" ->
            Len(sol) = 1 /\ Len(sol[1]) \in { 33, 65 } /\ ValidSize(sol[1])
      [] kind \in { "PUBKEYHASH", "SCRIPTHASH", "WITNESS_V0_KEYHASH" } ->
            Len(sol) = 1 /\ Len(sol[1]) = 20
      [] kind \in { "WITNESS_V0_SCRIPTHASH", "WITNESS_V1_TAPROOT" } ->
            Len(sol) = 1 /\ Len(sol[1]) = 32
      [] kind = "WITNESS_UNKNOWN" ->
            /\ Len(sol) = 2
            /\ sol[1] = << DecodeOP_N(scriptPubKey[1]) >>
            /\ sol[2] = Drop(scriptPubKey, 2)
      [] kind = "MULTISIG" ->
            /\ Len(sol) >= 3
            /\ Len(sol[1]) = 1 /\ Len(sol[Len(sol)]) = 1
            /\ sol[Len(sol)][1] = Len(sol) - 2
            /\ 1 <= sol[1][1] /\ sol[1][1] <= sol[Len(sol)][1] /\ sol[Len(sol)][1] <= 16
            /\ \A i \in 2..(Len(sol) - 1) : ValidSize(sol[i])
      [] OTHER -> FALSE

\* C8: Solver answers every byte sequence with a kind and a payload of the
\* shape fixed for that kind, and never returns solutions left in the vector
\* by an earlier call.
C8_SolverShape == op = "Solver" => SolutionShape(whichType, vSolutions)

\* Solver has classified a two-key multisig script
C8_Witness == op = "Solver" /\ whichType = "MULTISIG" /\ Len(vSolutions) = 4

\* C9: ConvertBits<5,8,false> applied to the output of ConvertBits<8,5,true>(x)
\* succeeds and yields exactly x, for every byte sequence x.
C9_ConvertBitsLaw == op = "ConvertBits<5,8,false>" => (to8.ok /\ to8.out = vals)

\* the round trip of a sequence that needed padding has been made
C9_Witness ==
    op = "ConvertBits<5,8,false>" /\ Len(vals) = 20 /\ Len(to5.out) = 32 /\ to8.ok

\* C10: for a script of kind Multisig, ExtractDestination returns false,
\* whether or not it has appended addresses to the list.
C10_MultisigFalsy ==
    (op = "ExtractDestination" /\ KindOf(scriptPubKey) = "MULTISIG") => ret = FALSE

\* ExtractDestination has appended two addresses of a multisig script and
\* returned false
C10_Witness ==
    /\ op = "ExtractDestination"
    /\ KindOf(scriptPubKey) = "MULTISIG"
    /\ emitted = 2
    /\ ret = FALSE

\* the witness version of the text DecodeDestination accepted by its Bech32
\* branch (the first data symbol)
DecodedVersion == Decoded(str).bech32.data[1]

\* C11: for a Bech32m address a of witness version 2..16 that
\* DecodeDestination accepts with script s, the list ExtractDestination
\* produces for s under the same Params does not contain a.
C11_NoRoundTripAboveV1 ==
    (ExtractedDecoded /\ IsBech32Text(str) /\ DecodedVersion \in 2..16)
        => (str \notin Range(addressRet) /\ ToLower(str) \notin Range(addressRet))

\* ExtractDestination has emitted an address for the script of a version-2
\* address, and it is another address
C11_Witness ==
    /\ ExtractedDecoded /\ IsBech32Text(str) /\ DecodedVersion = 2
    /\ ret /\ emitted = 1
    /\ ToLower(str) \notin Range(addressRet)

\* the script has the shape of a witness program: 4..42 bytes, a version
\* opcode, and a second byte that counts the bytes after it
WitnessShaped(v) ==
    /\ Len(v) >= 4 /\ Len(v) <= 42
    /\ v[1] = OP_0 \/ (v[1] >= OP_1 /\ v[1] <= OP_16)
    /\ v[2] = Len(v) - 2

\* what Solver must answer for the witness program p of version ver
WitnessAnswer(ver, p) ==
    IF ver = 0 /\ Len(p) = 20
    THEN whichType = "WITNESS_V0_KEYHASH" /\ vSolutions = << p >>
    ELSE IF ver = 0 /\ Len(p) = 32
    THEN whichType = "WITNESS_V0_SCRIPTHASH" /\ vSolutions = << p >>
    ELSE IF ver = 1 /\ Len(p) = 32
    THEN whichType = "WITNESS_V1_TAPROOT" /\ vSolutions = << p >>
    ELSE IF ver # 0
    THEN whichType = "WITNESS_UNKNOWN" /\ vSolutions = << << ver >>, p >>
    ELSE whichType = "NONSTANDARD" /\ vSolutions = << >>

\* C12: a script of 4..42 bytes that starts with OP_0 or OP_1..OP_16 and
\* whose second byte is its length less two is classified by its version and
\* program size alone: the three known kinds, WitnessUnknown with [[v], p] for
\* any other version but 0, NonStandard for version 0 of another size.
C12_WitnessClassification ==
    (op = "Solver" /\ WitnessShaped(scriptPubKey))
        => WitnessAnswer(IF scriptPubKey[1] = OP_0 THEN 0 ELSE scriptPubKey[1] - (OP_1 - 1),
                         SubSeq(scriptPubKey, 3, Len(scriptPubKey)))

\* Solver has classified a version-1 program of 20 bytes as WitnessUnknown
C12_Witness ==
    /\ op = "Solver" /\ WitnessShaped(scriptPubKey)
    /\ scriptPubKey[1] = OP_1 /\ Len(scriptPubKey) = 22
    /\ whichType = "WITNESS_UNKNOWN"

\* what the generic witness path must answer for version v and program p
GenericAnswer(v, p) ==
    /\ ret <=> (Len(p) >= 2 /\ Len(p) <= 40)
    /\ ret => script = << EncodeOP_N(v) >> \o p
    /\ ~ret => error_str = "Invalid Bech32 address program size ("
                           \o ToString(Len(p)) \o " "
                           \o (IF Len(p) = 1 THEN "byte" ELSE "bytes") \o ")"

\* the decoded text is a Bech32m text of matching hrp and valid padding whose
\* version is in 1..16 and which is not a version-1 program of 32 bytes
GenericAccepted(dec) ==
    /\ dec.encoding = "BECH32M"
    /\ dec.data # << >>
    /\ dec.hrp = params.bech32_hrp
    /\ dec.data[1] >= 1 /\ dec.data[1] <= 16
    /\ ConvertBits(5, 8, FALSE, Tail(dec.data)).ok
    /\ ~(dec.data[1] = 1 /\ Len(ConvertBits(5, 8, FALSE, Tail(dec.data)).out) = 32)

\* C13: on the generic witness path (Bech32m, matching hrp, valid padding,
\* version 1..16, not version 1 with 32 bytes) DecodeDestination succeeds
\* exactly when the program has 2..40 bytes and then returns the version
\* opcode followed directly by the program, |p| + 1 bytes; otherwise it fails
\* with the program-size message.
C13_GenericWitnessPath ==
    (op = "DecodeDestination" /\ GenericAccepted(Decoded(str).bech32))
        => GenericAnswer(Decoded(str).bech32.data[1],
                         ConvertBits(5, 8, FALSE, Tail(Decoded(str).bech32.data)).out)

WitnessKinds ==
    { "WITNESS_V0_KEYHASH", "WITNESS_V0_SCRIPTHASH", "WITNESS_V1_TAPROOT",
      "WITNESS_UNKNOWN" }

\* DecodeDestination has accepted a text of witness version 2..16
GenericDecoded ==
    op = "DecodeDestination" /\ ret /\ IsBech32Text(str) /\ DecodedVersion \in 2..16

\* the program of the text DecodeDestination accepted by its Bech32 branch
DecodedProgram == ConvertBits(5, 8, FALSE, Tail(Decoded(str).bech32.data)).out

GenericScriptKind(v, p, solved) ==
    /\ solved.type \in WitnessKinds => solved.solutions[Len(solved.solutions)] # p
    /\ entry = << >> =>
          IF p[1] = Len(p) - 1
          THEN solved = [type |-> "WITNESS_UNKNOWN",
                         solutions |-> << << v >>, Tail(p) >>]
          ELSE solved.type \notin WitnessKinds

Base58Diagnostics ==
    { "Invalid length for Base58 address (P2PKH or P2SH)",
      "Invalid or unsupported Base58-encoded address.",
      "Invalid checksum or length of Base58 address (P2PKH or P2SH)",
      "Invalid or unsupported Segwit (Bech32) or Base58 encoding." }

\* C15: routing by the hrp hint is exclusive. When the beginning of the text,
\* lower-cased, differs from params.bech32_hrp, the outcome is a P2PKH or P2SH
\* script of a text that passes the checksummed Base58 decode, or one of the
\* four Base58 diagnostics, also for a valid Bech32 address of another
\* network; when it is equal, no Base58 diagnostic and no Base58 script
\* results, and success needs a text bech32::Decode accepts.
C15_ExclusiveRouting ==
    op = "DecodeDestination" =>
        IF ~IsBech32Text(str)
        THEN /\ ret => /\ Decoded(str).base58check.ok
                       /\ KindOf(script) \in { "PUBKEYHASH", "SCRIPTHASH" }
             /\ ~ret => error_str \in Base58Diagnostics
        ELSE /\ error_str \notin Base58Diagnostics
             /\ ret => /\ Decoded(str).bech32.encoding # "INVALID"
                       /\ KindOf(script) \notin { "PUBKEYHASH", "SCRIPTHASH" }

\* the diagnostic of the first failing check of the Bech32 branch, the checks
\* in their order, "" when none fails; dec is bech32::Decode of the text
ExpectedBech32Error(dec, hrp) ==
    LET First(checks) ==
            IF \A i \in DOMAIN checks : ~checks[i][1] THEN ""
            ELSE checks[CHOOSE i \in DOMAIN checks :
                          checks[i][1] /\ \A j \in 1..(i - 1) : ~checks[j][1]][2]
        Size(n) == ToString(n) \o " " \o ByteStr(n)
        Checks(version, conv) ==
            << << dec.encoding \notin { "BECH32", "BECH32M" }, "Invalid address" >>,
               << dec.data = << >>, "Empty Bech32 data section" >>,
               << dec.hrp # hrp,
                  "Invalid or unsupported prefix for Segwit (Bech32) address (expected "
                  \o StringOf(hrp) \o ", got " \o StringOf(dec.hrp) \o ")." >>,
               << (version = 0) # (dec.encoding = "BECH32"),
                  IF version = 0
                  THEN "Version 0 witness address must use Bech32 checksum"
                  ELSE "Version 1+ witness address must use Bech32m checksum" >>,
               << ~conv.ok, "Invalid padding in Bech32 data section" >>,
               << version = 0 /\ Len(conv.out) \notin { 20, 32 },
                  "Invalid Bech32 v0 address program size (" \o Size(Len(conv.out))
                  \o "), per BIP141" >>,
               << version > 16, "Invalid Bech32 address witness version" >>,
               << /\ version # 0
                  /\ ~(version = 1 /\ Len(conv.out) = 32)
                  /\ Len(conv.out) \notin 2..40,
                  "Invalid Bech32 address program size (" \o Size(Len(conv.out))
                  \o ")" >> >>
    IN IF dec.data = << >> THEN First(Checks(0, [ok |-> TRUE, out |-> << >>]))
       ELSE First(Checks(dec.data[1], ConvertBits(5, 8, FALSE, Tail(dec.data))))

\* C16: the diagnostics of the Bech32 branch follow a fixed precedence, the
\* first failing check deciding error_str: a text that is neither Bech32 nor
\* Bech32m ("Invalid address"), empty data section, hrp mismatch, version
\* under the wrong checksum variant, padding, version-0 program size, version
\* above 16, generic program size; error_str is empty when no check fails.
C16_DiagnosticPrecedence ==
    (op = "DecodeDestination" /\ IsBech32Text(str))
        => error_str = ExpectedBech32Error(Decoded(str).bech32, params.bech32_hrp)

\* a Bech32m text of version 17 whose program has no accepted size has failed
\* on its version
C16_Witness ==
    /\ op = "DecodeDestination" /\ IsBech32Text(str)
    /\ Decoded(str).bech32.encoding = "BECH32M"
    /\ Decoded(str).bech32.hrp = params.bech32_hrp
    /\ Decoded(str).bech32.data # << >>
    /\ DecodedVersion = 17
    /\ Len(DecodedProgram) \notin 2..40
    /\ ConvertBits(5, 8, FALSE, Tail(Decoded(str).bech32.data)).ok
    /\ error_str = "Invalid Bech32 address witness version"

\* C17: with a false hrp hint the Base58 diagnostics are: after a successful
\* checksummed decode whose payload has neither accepted shape, "Invalid
\* length for Base58 address (P2PKH or P2SH)" when the payload starts with
\* the PUBKEY_ADDRESS or SCRIPT_ADDRESS prefix and "Invalid or unsupported
\* Base58-encoded address." otherwise; after a failed checksummed decode,
\* "Invalid checksum or length of Base58 address (P2PKH or P2SH)" when the
\* plain decode of at most 100 bytes parses and "Invalid or unsupported
\* Segwit (Bech32) or Base58 encoding." when it does not.
C17_Base58Diagnostics ==
    LET Begins(data, prefix) ==
            Len(data) >= Len(prefix) /\ SubSeq(data, 1, Len(prefix)) = prefix
        Shaped(data, prefix) == Len(data) = 20 + Len(prefix) /\ Begins(data, prefix)
        Payload(data) ==
            IF Shaped(data, params.PUBKEY_ADDRESS) \/ Shaped(data, params.SCRIPT_ADDRESS)
            THEN ret
            ELSE IF Begins(data, params.PUBKEY_ADDRESS)
                    \/ Begins(data, params.SCRIPT_ADDRESS)
            THEN ~ret /\ error_str = "Invalid length for Base58 address (P2PKH or P2SH)"
            ELSE ~ret /\ error_str = "Invalid or unsupported Base58-encoded address."
        Answer(d) ==
            IF d.base58check.ok THEN Payload(d.base58check.data)
            ELSE IF d.base58.ok
            THEN /\ ~ret
                 /\ error_str
                      = "Invalid checksum or length of Base58 address (P2PKH or P2SH)"
            ELSE /\ ~ret
                 /\ error_str
                      = "Invalid or unsupported Segwit (Bech32) or Base58 encoding."
    IN (op = "DecodeDestination" /\ ~IsBech32Text(str)) => Answer(Decoded(str))

\* a payload of the PUBKEY_ADDRESS prefix and 19 bytes has failed on its length
C17_Witness ==
    /\ op = "DecodeDestination" /\ ~IsBech32Text(str)
    /\ Decoded(str).base58check.ok
    /\ Decoded(str).base58check.data = params.PUBKEY_ADDRESS \o Fill(19, 1)
    /\ error_str = "Invalid length for Base58 address (P2PKH or P2SH)"

\* C18: one ExtractDestination call appends exactly n addresses for a script
\* classified as n-key Multisig, one per embedded public key in script order,
\* each the Base58Check encoding of the PUBKEY_ADDRESS prefix followed by the
\* key's bytes; exactly one, returning true, for PubKey, PubKeyHash,
\* ScriptHash, WitnessV0KeyHash, WitnessV0ScriptHash, WitnessV1Taproot and
\* WitnessUnknown; none, returning false, for NullData and NonStandard.
C18_AddressCount ==
    LET Keys(keys, n) ==
            /\ emitted = n
            /\ \A i \in 1..n :
                  addressRet[Len(addressRet) - n + i]
                      = EncodeBase58Check(params.PUBKEY_ADDRESS \o keys[i + 1])
        Count(solved) ==
            IF solved.type = "MULTISIG"
            THEN Keys(solved.solutions, Len(solved.solutions) - 2)
            ELSE IF solved.type \in { "NULL_DATA", "NONSTANDARD" }
            THEN emitted = 0 /\ ~ret
            ELSE /\ solved.type \in WitnessKinds \cup { "PUBKEY", "PUBKEYHASH", "SCRIPTHASH" }
                 /\ emitted = 1 /\ ret
    IN op = "ExtractDestination" => Count(Solver(scriptPubKey, << >>))

\* ExtractDestination has appended the addresses of the two different keys of
\* a multisig script, in their order
C18_Witness ==
    /\ op = "ExtractDestination"
    /\ KindOf(scriptPubKey) = "MULTISIG"
    /\ emitted = 2
    /\ Len(Solver(scriptPubKey, << >>).solutions) = 4
    /\ Len(Solver(scriptPubKey, << >>).solutions[2]) = 33
    /\ Len(Solver(scriptPubKey, << >>).solutions[3]) = 65
    /\ addressRet[Len(addressRet)]
         = EncodeBase58Check(params.PUBKEY_ADDRESS
                             \o Solver(scriptPubKey, << >>).solutions[3])

\* the n bits of v, the most significant first, and the number bits spell
BitsOf(v, n) == [i \in 1..n |-> (v \div 2 ^ (n - i)) % 2]
RECURSIVE ValueOf(_)
ValueOf(bits) ==
    IF bits = << >> THEN 0 ELSE 2 * ValueOf(Take(bits, Len(bits) - 1)) + bits[Len(bits)]

\* the reference conversion, its accumulator kept whole as the sequence acc of
\* all the bits shifted in so far. While count >= to_bits: subtract to_bits
\* from count and emit (acc >> count) & mask(to_bits)
RECURSIVE ReferenceDrain(_, _, _, _)
ReferenceDrain(to_bits, acc, count, out) ==
    IF count >= to_bits
    THEN ReferenceDrain(to_bits, acc, count - to_bits,
             Append(out, ValueOf(SubSeq(acc, Len(acc) - count + 1,
                                        Len(acc) - count + to_bits))))
    ELSE [acc |-> acc, count |-> count, out |-> out]

\* for each input symbol of input[lo..hi]: shift acc left by from_bits, OR in
\* the symbol, add from_bits to the count, and emit
RECURSIVE ReferenceLoop(_, _, _, _, _, _)
ReferenceLoop(from_bits, to_bits, st, input, lo, hi) ==
    IF st.count < 0 \/ lo > hi THEN st   \* (st is evaluated before the range is split)
    ELSE IF lo = hi
    THEN ReferenceDrain(to_bits, st.acc \o BitsOf(input[lo], from_bits),
                        st.count + from_bits, st.out)
    ELSE ReferenceLoop(from_bits, to_bits,
                       ReferenceLoop(from_bits, to_bits, st, input, lo, (lo + hi) \div 2),
                       input, (lo + hi) \div 2 + 1, hi)

\* the reference conversion: [ok, out]; residual is
\* (acc << (to_bits - count)) & mask(to_bits)
ReferenceConvertBits(from_bits, to_bits, pad, input) ==
    LET Finish(st, residual) ==
            IF pad
            THEN [ok |-> TRUE,
                  out |-> IF st.count > 0 THEN Append(st.out, residual) ELSE st.out]
            ELSE [ok |-> ~(st.count >= from_bits \/ residual # 0), out |-> st.out]
        Residual(st) ==
            Finish(st, ValueOf(SubSeq(st.acc, Len(st.acc) - st.count + 1, Len(st.acc))
                               \o [k \in 1..(to_bits - st.count) |-> 0]))
    IN Residual(ReferenceLoop(from_bits, to_bits,
                              [acc |-> << >>, count |-> 0, out |-> << >>],
                              input, 1, Len(input)))

\* C19: ConvertBits, whose accumulator is cut to frombits + tobits - 1 bits on
\* every step, emits the same symbols and returns the same result as the
\* reference conversion with a whole accumulator, for <8,5,true> and
\* <5,8,false>; without padding it fails exactly when 5 or more bits are left
\* over or the bits left over are not all zero.
C19_ConvertBitsReference ==
    /\ op = "ConvertBits<8,5,true>" => to5 = ReferenceConvertBits(8, 5, TRUE, vals)
    /\ op = "ConvertBits<5,8,false>" => to8 = ReferenceConvertBits(5, 8, FALSE, to5.out)
    /\ op = "ConvertBits<5,8,false>(vals)" =>
          /\ to8 = ReferenceConvertBits(5, 8, FALSE, vals)
          /\ ~to8.ok <=>
                \/ (5 * Len(vals)) % 8 >= 5
                \/ /\ vals # << >>
                   /\ vals[Len(vals)] % 2 ^ ((5 * Len(vals)) % 8) # 0

\* a conversion without padding has emitted one byte and failed on the two
\* bits left over, which are not zero
C19_Witness ==
    /\ op = "ConvertBits<5,8,false>(vals)"
    /\ vals = << 31, 1 >>
    /\ to8 = [ok |-> FALSE, out |-> << 248 >>]

\* C20: the two result channels of DecodeDestination agree: it returns true
\* exactly when error_str is empty on return, and a call that fails leaves
\* the caller's script vector as it was on entry.
C20_ChannelsAgree ==
    op = "DecodeDestination" =>
        /\ ret <=> error_str = ""
        /\ ~ret => script = entry

\* a call given a vector that already holds a script has failed with a
\* diagnostic and left the vector as it was
C20_Witness ==
    /\ op = "DecodeDestination"
    /\ ~ret
    /\ error_str # ""
    /\ entry # << >>
    /\ script = entry

\* C21: the Solver templates are mutually exclusive, so that the order of the
\* rules never changes a result: no script satisfies more than one of the
\* P2SH fast path, the witness-program shape, the NullData shape, the P2PK
\* shape, the P2PKH shape and the Multisig shape, and the kind Solver returns
\* is that of the one template the script satisfies; in particular no script
\* of the witness-program shape matches the Multisig template.
C21_TemplatesExclusive ==
    LET Templates(v) ==
            { t \in { "SCRIPTHASH", "WITNESS", "NULL_DATA", "PUBKEY", "PUBKEYHASH",
                      "MULTISIG" } :
                \/ t = "SCRIPTHASH" /\ IsPayToScriptHash(v)
                \/ t = "WITNESS" /\ IsWitnessProgram(v).ok
                \/ t = "NULL_DATA" /\ Len(v) >= 1 /\ v[1] = OP_RETURN /\ IsPushOnly(v, 2)
                \/ t = "PUBKEY" /\ MatchPayToPubkey(v).ok
                \/ t = "PUBKEYHASH" /\ MatchPayToPubkeyHash(v).ok
                \/ t = "MULTISIG" /\ MatchMultisig(v).ok }
        Exclusive(matched) ==
            /\ Cardinality(matched) <= 1
            /\ matched = { } => whichType = "NONSTANDARD"
            /\ \A t \in matched :
                  IF t = "WITNESS" THEN whichType \in WitnessKinds \cup { "NONSTANDARD" }
                  ELSE whichType = t
    IN op = "Solver" => Exclusive(Templates(scriptPubKey))

\* Solver has classified a script of the witness-program shape that begins
\* with a small integer and a push of 33 bytes and ends like a multisig script
C21_Witness ==
    /\ op = "Solver"
    /\ Len(scriptPubKey) = 37
    /\ scriptPubKey[1] = OP_1
    /\ scriptPubKey[2] = 35
    /\ scriptPubKey[36] = OP_1
    /\ scriptPubKey[37] = OP_CHECKMULTISIG
    /\ whichType = "WITNESS_UNKNOWN"

\* C22: every WitnessUnknown result of Solver carries a version in 1..16 and
\* a program of 2..40 bytes, so that the rejection test of ExtractDestination's
\* WitnessUnknown branch never holds: for every script classified
\* WitnessUnknown ExtractDestination returns true and appends exactly one
\* address, a Bech32m text.
C22_WitnessUnknownAccepted ==
    /\ (op = "Solver" /\ whichType = "WITNESS_UNKNOWN") =>
          /\ Len(vSolutions) = 2
          /\ Len(vSolutions[1]) = 1
          /\ vSolutions[1][1] \in 1..16
          /\ Len(vSolutions[2]) \in 2..40
    /\ (op = "ExtractDestination" /\ KindOf(scriptPubKey) = "WITNESS_UNKNOWN") =>
          /\ ret
          /\ emitted = 1
          /\ Decoded(addressRet[Len(addressRet)]).bech32.encoding = "BECH32M"
          /\ Decoded(addressRet[Len(addressRet)]).bech32.hrp = params.bech32_hrp

\* ExtractDestination has emitted the address of a version-16 program of 40
\* bytes, the largest of both
C22_Witness ==
    /\ op = "ExtractDestination"
    /\ KindOf(scriptPubKey) = "WITNESS_UNKNOWN"
    /\ scriptPubKey[1] = OP_16
    /\ Len(scriptPubKey) = 42
    /\ ret
    /\ emitted = 1

\* C23: decoding is canonical in the reverse direction. For every sequence y
\* of 5-bit symbols on which ConvertBits<5,8,false> succeeds with bytes b,
\* ConvertBits<8,5,true>(b) succeeds and yields exactly y, so that b is the
\* program of no other data section.
C23_ReverseRoundTrip ==
    op = "ConvertBits<8,5,true>(to8)" => (to5.ok /\ to5.out = vals)

\* five symbols whose last bit is zero have been converted to three bytes and
\* back
C23_Witness ==
    /\ op = "ConvertBits<8,5,true>(to8)"
    /\ vals = << 31, 1, 16, 31, 16 >>
    /\ Len(to8.out) = 3
    /\ to5.out = vals

\* C24: the debug action cleartable. With the contract's own authority and a
\* known multi-index table of R rows, a limit L = max_rows removes exactly
\* min(R, L) rows from the front and leaves the other rows and all other
\* tables as they were; an absent max_rows or max_rows = 0 removes all rows.
\* An unknown table_name aborts the action with the check "unknown table to
\* clear", and an authorizer other than the contract aborts it too: no table
\* changes. (A singleton is removed whatever max_rows is.)
C24_ClearTable ==
    LET Unlimited == ~call.max_rows.present \/ call.max_rows.value = 0
        Removed(R) ==
            IF Unlimited \/ call.max_rows.value >= R THEN R ELSE call.max_rows.value
        Frame(k) == \A other \in DOMAIN before \ { k } : tables[other] = before[other]
        Rows(k) ==
            /\ tables[k] = SubSeq(before[k], Removed(Len(before[k])) + 1, Len(before[k]))
            /\ Frame(k)
        Single(k) == tables[k] = << >> /\ Frame(k)
    IN op = "cleartable" =>
          /\ DOMAIN tables = DOMAIN before
          /\ IF call.auth # self
             THEN aborted = "missing authority of " \o self /\ tables = before
             ELSE IF call.table_name \in MultiIndexTables(self)
             THEN aborted = "" /\ Rows(<< call.table_name, self >>)
             ELSE IF call.table_name = "block.extra"
             THEN /\ aborted = ""
                  /\ Single(<< "block.extra",
                               IF call.scope.present THEN call.scope.value ELSE self >>)
             ELSE IF call.table_name \in Singletons(self)
             THEN aborted = "" /\ Single(<< call.table_name, self >>)
             ELSE /\ aborted
                       \in { "keymng::cleartable: [table_name] unknown table to clear",
                             "utxomng.xsat::cleartable: [table_name] unknown table to clear" }
                  /\ tables = before

\* cleartable of utxo_manage has removed the first two of the three rows of
\* utxos and left the third
C24_Witness ==
    /\ op = "cleartable"
    /\ self = "utxo_manage"
    /\ call.auth = self
    /\ call.table_name = "utxos"
    /\ call.max_rows = [present |-> TRUE, value |-> 2]
    /\ Len(before[<< "utxos", self >>]) = 3
    /\ tables[<< "utxos", self >>] = << << "utxos", 3 >> >>
    /\ aborted = ""

=============================================================================
